---- MODULE Spec2Model ----
(***************************************************************************)
(* The fetch-cache core of the crypto data relay service:                  *)
(*   - netlify/functions/ccxt-adapter.js : CcxtAdapter and its TTL cache   *)
(*   - netlify/functions/ccxt-api.js     : the Express routes over it      *)
(*   - netlify/functions/ccxt-simple.js  : the handler without Express     *)
(*   - unnamed/part_002 (lines 403-626)  : the relay adapter               *)
(* A request is a process: one action per stretch of code between awaits.  *)
(***************************************************************************)
EXTENDS Integers, Sequences, FiniteSets, TLC

(* ---------------------------------------------------------------- bounds *)
\* Number of requests of one run (they may all be in flight together).
NumRequests == 2
\* Number of times the clock is advanced in one run.
MaxTicks == 1
\* Longest parameter object handed to generateCacheKey in SpecKey.
MaxParams == 2

(* ------------------------------------------------------- JavaScript values *)
\* A JavaScript value: its type tag and its text. Numbers keep their decimal text.
Str(s) == [t |-> "string", v |-> s]
Num(s) == [t |-> "number", v |-> s]
True == [t |-> "boolean", v |-> "true"]
Undefined == [t |-> "undefined", v |-> ""]
Null == [t |-> "null", v |-> ""]
NaN == [t |-> "NaN", v |-> ""]

\* A property of an object literal: a name and a value, kept in insertion order.
Prop(n, x) == [name |-> n, value |-> x]

\* Property names that are array indices: JavaScript enumerates these first, in
\* ascending numeric order, whatever their insertion order.
ArrayIndexNames == <<"0", "1">>

IsArrayIndex(n) == \E i \in 1..Len(ArrayIndexNames) : ArrayIndexNames[i] = n

HasProp(obj, n) == \E i \in 1..Len(obj) : obj[i].name = n

PropValue(obj, n) == obj[CHOOSE i \in 1..Len(obj) : obj[i].name = n].value

\* The own property keys in enumeration order: array indices ascending, then the
\* other names in insertion order.
OwnPropertyKeys(obj) ==
  LET names == [i \in 1..Len(obj) |-> obj[i].name]
  IN  SelectSeq(ArrayIndexNames, LAMBDA n : HasProp(obj, n))
        \o SelectSeq(names, LAMBDA n : ~IsArrayIndex(n))

\* JSON.stringify of a value that is a property of an object: NaN is written as
\* null (as null itself is), a string is quoted, a number and a boolean are
\* written as they are.
JsonValue(x) ==
  CASE x.t = "string" -> "\"" \o x.v \o "\""
    [] x.t = "number" -> x.v
    [] x.t = "boolean" -> x.v
    [] x.t = "null" -> "null"
    [] x.t = "NaN" -> "null"

RECURSIVE JoinProps(_, _)
JoinProps(obj, keys) ==
  IF keys = <<>> THEN ""
  ELSE LET n == Head(keys)
           rest == JoinProps(obj, Tail(keys))
           this == "\"" \o n \o "\":" \o JsonValue(PropValue(obj, n))
       IN  IF rest = "" THEN this ELSE this \o "," \o rest

\* JSON.stringify(params): a property whose value is undefined is left out.
JsonStringify(obj) ==
  LET keys == SelectSeq(OwnPropertyKeys(obj),
                        LAMBDA n : PropValue(obj, n).t # "undefined")
  IN  "{" \o JoinProps(obj, keys) \o "}"

\* The hex MD5 digest of a string, taken as injective: the digest of a string is
\* written as the string itself.
Md5Hex(str) == str

generateCacheKey(type, params) == type \o "_" \o Md5Hex(JsonStringify(params))

(* ---------------------------------------------------------------- the cache *)
CACHE_TTL == [exchanges |-> 3600000, markets |-> 300000, tickers |-> 10000, ohlcv |-> 60000]

KeyedTypes == {"markets", "tickers", "ohlcv"}

\* A JavaScript object used as a map: a set of <<key, value>> with distinct keys.
MapHas(m, k) == \E e \in m : e[1] = k
MapGet(m, k) == (CHOOSE e \in m : e[1] = k)[2]
MapPut(m, k, x) == {e \in m : e[1] # k} \cup {<<k, x>>}

\* A payload kept in the cache or returned: what it is and the data it was made of.
NoPayload == [shape |-> "null", of |-> "", data |-> ""]
UndefinedPayload == [shape |-> "undefined", of |-> "", data |-> ""]
Payload(shape, of, data) == [shape |-> shape, of |-> of, data |-> data]

VARIABLES
  now,              \* Date.now(), in milliseconds
  ticks,            \* how often the clock was advanced
  cache,            \* the payloads: exchanges, and a map per keyed type
  cacheTimestamps,  \* the store times: exchanges, and a map per keyed type
  pc,               \* per request: where it stands
  call,             \* per request: the handler, the operation and its arguments
  log,              \* per request: what it did to the cache, the registry and the network
  result,           \* per request: what the adapter operation returned or threw
  response,         \* per request: the response at the boundary
  keyIn,            \* SpecKey: the two (type, params) handed to generateCacheKey
  keyOut,           \* SpecKey: the two keys it gave
  registry,         \* the relay adapter's SUPPORTED_EXCHANGES and API_BASE_URLS
  appResult,        \* SpecWrapper: the result serverless(app) resolved to
  handlerResult     \* SpecWrapper: the result the exported handler returned

coreVars == <<now, ticks, cache, cacheTimestamps, pc, call, log, result, response>>
keyVars == <<keyIn, keyOut>>
wrapperVars == <<appResult, handlerResult>>
vars ==
  <<now, ticks, cache, cacheTimestamps, pc, call, log, result, response, keyIn, keyOut,
    registry, appResult, handlerResult>>

Requests == 1..NumRequests

(* ------------------------------------------------------------- the registry *)
\* ccxt.exchanges, the identifiers the ccxt library knows: three of them here.
ccxtExchanges == {"gateio", "okx", "coincheck"}

\* exchange.has.fetchOHLCV of a new ccxt[exchangeId](...): one exchange without it.
hasFetchOHLCV(exchangeId) == exchangeId # "coincheck"

\* exchange.timeframes of an exchange, the same before and after loadMarkets.
timeframes(exchangeId) == IF hasFetchOHLCV(exchangeId) THEN {"1m", "1h", "1d"} ELSE {}

\* The relay adapter's own list.
SUPPORTED_EXCHANGES == {"binance", "gateio", "kucoin", "okx", "huobi", "bitget",
                        "mexc", "bybit", "coinex", "bitfinex"}

(* ------------------------------------------------------------------ inputs *)
ExchangeIds == {"gateio", "not-a-real-exchange"}
RelayExchangeIds == {"gateio", "okx", "not-a-real-exchange"}
Symbols == {"BTC/USDT"}
Timeframes == {"1h", "7m"}
\* The candles requests: an exchange with the timeframe and without it, an exchange
\* without fetchOHLCV, an unknown exchange.
OhlcvRequests == {<<"gateio", "1h">>, <<"gateio", "7m">>, <<"coincheck", "1h">>,
                  <<"not-a-real-exchange", "1h">>}
\* The limit and since of the query string: absent, or a string.
LimitQueries == {Undefined}
SinceQueries == {Undefined}
\* The message of the error a failed outbound call throws.
UpstreamErrors == {"request timed out"}
\* How the outbound call of request r ends: with an answer (no two requests get the
\* same one, so each is named after its request) or with an error.
Outcomes(r) == {[ok |-> TRUE, v |-> "answer " \o ToString(r)]}
                 \cup [ok : {FALSE}, v : UpstreamErrors]

(* ----------------------------------------------------- results and responses *)
\* What an operation returns (a payload) or throws (an Error: its message, and its
\* status property, 0 when it has none).
NoResult == [kind |-> "none", payload |-> NoPayload, message |-> "", status |-> 0]
Returned(p) == [kind |-> "payload", payload |-> p, message |-> "", status |-> 0]
\* new Error(message): an Error has no status property.
Thrown(message) == [kind |-> "error", payload |-> NoPayload, message |-> message, status |-> 0]

\* A response: the status code and the JSON body. An error body is either
\* {error: {status, message, ...}} ("errorObject") or {error: message, ...}
\* ("errorString", where status is 0: the body has no such field).
NoResponse == [statusCode |-> 0, shape |-> "none", status |-> 0, message |-> "", payload |-> NoPayload]
JsonResponse(code, p) ==
  [statusCode |-> code, shape |-> "data", status |-> 0, message |-> "", payload |-> p]
ErrorObjectResponse(code, status, message) ==
  [statusCode |-> code, shape |-> "errorObject", status |-> status, message |-> message,
   payload |-> NoPayload]
ErrorStringResponse(code, message) ==
  [statusCode |-> code, shape |-> "errorString", status |-> 0, message |-> message,
   payload |-> NoPayload]

\* What a request did, in order: a read of the cache's timestamps ("cache.read",
\* with what it found), a getCache ("cache.get"), a setCache ("cache.set"), a look
\* into the list of exchanges ("registry"), an outbound call as it is issued
\* ("direct", "relay") and as it ends ("direct.ok", "direct.failed", "relay.ok",
\* "relay.failed").
Ev(ev, what) == [ev |-> ev, what |-> what, note |-> "", at |-> 0]
\* A setCache that took place, with the Date.now() it stored.
Stored(key) == [ev |-> "cache.set", what |-> key, note |-> "", at |-> now]

NoCall == [handler |-> "", op |-> "", exchangeId |-> "", symbol |-> "", timeframe |-> "",
           limit |-> Undefined, since |-> Undefined, given |-> {}, cacheKey |-> "",
           path |-> ""]
Call(handler, op, exchangeId, symbol, timeframe, limit, since) ==
  [handler |-> handler, op |-> op, exchangeId |-> exchangeId, symbol |-> symbol,
   timeframe |-> timeframe, limit |-> limit, since |-> since, given |-> {},
   cacheKey |-> "", path |-> ""]

(* ------------------------------------------------------ ccxt-adapter.js: cache *)
\* isCacheValid with <= for <: an entry exactly as old as the TTL still counts.
isCacheValidInclusive(type, key) ==
  LET present == IF type = "exchanges" THEN TRUE ELSE MapHas(cacheTimestamps[type], key)
      timestamp == IF type = "exchanges" THEN cacheTimestamps.exchanges
                   ELSE IF present THEN MapGet(cacheTimestamps[type], key) ELSE 0
  IN  IF ~present \/ timestamp = 0 THEN FALSE
      ELSE now - timestamp <= CACHE_TTL[type]

\* isCacheValid without the comparison to the TTL: any stored timestamp counts.
isCacheValidNoExpiry(type, key) ==
  LET present == IF type = "exchanges" THEN TRUE ELSE MapHas(cacheTimestamps[type], key)
      timestamp == IF type = "exchanges" THEN cacheTimestamps.exchanges
                   ELSE IF present THEN MapGet(cacheTimestamps[type], key) ELSE 0
  IN  ~(~present \/ timestamp = 0)

\* isCacheValid with the window one millisecond short: an entry is not valid in
\* the last millisecond before its TTL is over.
isCacheValidEarly(type, key) ==
  LET present == IF type = "exchanges" THEN TRUE ELSE MapHas(cacheTimestamps[type], key)
      timestamp == IF type = "exchanges" THEN cacheTimestamps.exchanges
                   ELSE IF present THEN MapGet(cacheTimestamps[type], key) ELSE 0
  IN  IF ~present \/ timestamp = 0 THEN FALSE
      ELSE now - timestamp < CACHE_TTL[type] - 1

\* isCacheValid(type, key): the stored timestamp, false when there is none (or 0),
\* else now - timestamp < CACHE_TTL[type].
isCacheValid(type, key) ==
  LET present == IF type = "exchanges" THEN TRUE ELSE MapHas(cacheTimestamps[type], key)
      timestamp == IF type = "exchanges" THEN cacheTimestamps.exchanges
                   ELSE IF present THEN MapGet(cacheTimestamps[type], key) ELSE 0
  IN  IF ~present \/ timestamp = 0 THEN FALSE
      ELSE now - timestamp < CACHE_TTL[type]

\* What a read of the timestamps finds under a key: nothing ("absent"), an entry
\* younger than the TTL ("valid") or one that is not ("expired").
ReadState(type, key) ==
  LET present == IF type = "exchanges" THEN cacheTimestamps.exchanges # 0
                 ELSE MapHas(cacheTimestamps[type], key)
      timestamp == IF type = "exchanges" THEN cacheTimestamps.exchanges
                   ELSE MapGet(cacheTimestamps[type], key)
  IN  IF ~present THEN "absent"
      ELSE IF now - timestamp < CACHE_TTL[type] THEN "valid" ELSE "expired"

CacheRead(type, key) ==
  [ev |-> "cache.read", what |-> key, note |-> ReadState(type, key), at |-> 0]

\* setCache assigning a new object to cache[type]: the other keys of the type go.
setCacheReplacing(type, key, data) ==
  IF type = "exchanges"
  THEN [cache |-> [cache EXCEPT !.exchanges = data],
        cacheTimestamps |-> [cacheTimestamps EXCEPT !.exchanges = now]]
  ELSE [cache |-> [cache EXCEPT ![type] = {<<key, data>>}],
        cacheTimestamps |-> [cacheTimestamps EXCEPT ![type] = {<<key, now>>}]]

\* setCache without its second assignment: the payload is stored, the timestamp
\* is not.
setCachePayloadOnly(type, key, data) ==
  IF type = "exchanges"
  THEN [cache |-> [cache EXCEPT !.exchanges = data], cacheTimestamps |-> cacheTimestamps]
  ELSE [cache |-> [cache EXCEPT ![type] = MapPut(@, key, data)],
        cacheTimestamps |-> cacheTimestamps]

\* setCache with one object for all keyed types: the payload and the timestamp go
\* under the key in each of them.
setCacheEveryType(type, key, data) ==
  IF type = "exchanges"
  THEN [cache |-> [cache EXCEPT !.exchanges = data],
        cacheTimestamps |-> [cacheTimestamps EXCEPT !.exchanges = now]]
  ELSE [cache |-> [t \in DOMAIN cache |->
                     IF t \in KeyedTypes THEN MapPut(cache[t], key, data) ELSE cache[t]],
        cacheTimestamps |-> [t \in DOMAIN cacheTimestamps |->
                               IF t \in KeyedTypes THEN MapPut(cacheTimestamps[t], key, now)
                               ELSE cacheTimestamps[t]]]

\* setCache(type, key, data): the payload and Date.now(), both under the key (or
\* both in the exchanges slots). Gives the two objects as they are afterwards.
setCache(type, key, data) ==
  IF type = "exchanges"
  THEN [cache |-> [cache EXCEPT !.exchanges = data],
        cacheTimestamps |-> [cacheTimestamps EXCEPT !.exchanges = now]]
  ELSE [cache |-> [cache EXCEPT ![type] = MapPut(@, key, data)],
        cacheTimestamps |-> [cacheTimestamps EXCEPT ![type] = MapPut(@, key, now)]]

\* getCache reading cache[key] for cache[type][key]: undefined for every keyed type.
getCacheNoType(type, key) ==
  IF type = "exchanges" THEN cache.exchanges ELSE UndefinedPayload

\* getCache(type, key): cache.exchanges, or cache[type][key] (undefined when absent).
getCache(type, key) ==
  IF type = "exchanges" THEN cache.exchanges
  ELSE IF MapHas(cache[type], key) THEN MapGet(cache[type], key) ELSE UndefinedPayload

\* createExchange without the check against ccxt.exchanges.
createExchangeUnchecked(exchangeId) == Returned(Payload("exchange", exchangeId, ""))

\* createExchange(exchangeId): throws for an identifier ccxt does not list, else
\* gives the new instance (here: its identifier).
createExchange(exchangeId) ==
  IF exchangeId \notin ccxtExchanges
  THEN Thrown("unsupported exchange: " \o exchangeId)
  ELSE Returned(Payload("exchange", exchangeId, ""))

(* --------------------------------------------------------- ccxt-api.js: routes *)
\* handleError(error, res): status = error.status || 500, message = error.message
\* || the default text; both go into the body's error object.
handleError(error) ==
  LET status == IF error.status # 0 THEN error.status ELSE 500
      message == IF error.message # "" THEN error.message ELSE "internal server error"
  IN  ErrorObjectResponse(status, status, message)

\* A route of ccxt-api.js around an adapter operation: res.json(...) of what it
\* returned, handleError of what it threw.
ApiRoute(res) ==
  IF res.kind = "payload" THEN JsonResponse(200, res.payload) ELSE handleError(res)

(* ------------------------------------------------------------------ requests *)
\* Requests are numbered in the order they start.
CanStart(r) == pc[r] = "idle" /\ (IF r = 1 THEN TRUE ELSE pc[r - 1] # "idle")

\* Request r ends: the operation returned or threw res, the boundary answers resp.
Finish(r, c, events, res, resp) ==
  /\ pc' = [pc EXCEPT ![r] = "done"]
  /\ call' = [call EXCEPT ![r] = c]
  /\ log' = [log EXCEPT ![r] = @ \o events]
  /\ result' = [result EXCEPT ![r] = res]
  /\ response' = [response EXCEPT ![r] = resp]

\* Request r goes on to wait for an outbound call.
Await(r, c, events, at) ==
  /\ pc' = [pc EXCEPT ![r] = at]
  /\ call' = [call EXCEPT ![r] = c]
  /\ log' = [log EXCEPT ![r] = @ \o events]
  /\ UNCHANGED <<result, response>>

\* The parameter objects the routes build, and generateCacheKey of each, evaluated
\* once; keyOf is generateCacheKey.
keyParams ==
  {<<"markets", <<Prop("exchangeId", Str(e))>>>> : e \in ExchangeIds}
    \cup {<<"markets", <<Prop("exchangeId", Str(e)), Prop("full", True)>>>> : e \in ExchangeIds}
    \cup {<<"tickers", <<Prop("exchangeId", Str(e)), Prop("symbol", Str(sy))>>>> :
            e \in ExchangeIds, sy \in Symbols}
    \cup {<<"ohlcv", <<Prop("exchangeId", Str(q[1])), Prop("symbol", Str(sy)),
                       Prop("timeframe", Str(q[2])), Prop("limit", Num("100")),
                       Prop("since", Undefined)>>>> : q \in OhlcvRequests, sy \in Symbols}
generatedKeys == [a \in keyParams |-> generateCacheKey(a[1], a[2])]
keyOf(type, params) ==
  IF <<type, params>> \in keyParams THEN generatedKeys[<<type, params>>]
  ELSE generateCacheKey(type, params)

\* GET /api/v1/exchanges: getAllExchangeIds has no await of its own.
getAllExchangeIds(r) ==
  /\ CanStart(r)
  /\ LET c == Call("ccxt-api", "getAllExchangeIds", "", "", "", Undefined, Undefined)
     IN  IF isCacheValid("exchanges", "")
         THEN /\ Finish(r, c, <<CacheRead("exchanges", "exchanges"), Ev("cache.get", "exchanges")>>,
                        Returned(getCache("exchanges", "")),
                        ApiRoute(Returned(getCache("exchanges", ""))))
              /\ UNCHANGED <<cache, cacheTimestamps>>
         ELSE LET exchanges == Payload("exchanges", "ccxt.exchanges", "")
                  s == setCache("exchanges", "", exchanges)
              IN  /\ cache' = s.cache
                  /\ cacheTimestamps' = s.cacheTimestamps
                  /\ Finish(r, c, <<CacheRead("exchanges", "exchanges"), Stored("exchanges")>>,
                            Returned(exchanges), ApiRoute(Returned(exchanges)))
  /\ UNCHANGED <<now, ticks, keyVars, registry, wrapperVars>>

\* The hit branch with a sliding expiry: the read sets the timestamp to now.
ServeFromCacheTouching(r, c, type, key) ==
  /\ Finish(r, c, <<CacheRead(type, key), Ev("cache.get", key)>>,
            Returned(getCache(type, key)), ApiRoute(Returned(getCache(type, key))))
  /\ cache' = cache
  /\ cacheTimestamps' = setCache(type, key, getCache(type, key)).cacheTimestamps

\* The hit branch of an operation: return getCache(type, key).
ServeFromCache(r, c, type, key) ==
  /\ Finish(r, c, <<CacheRead(type, key), Ev("cache.get", key)>>,
            Returned(getCache(type, key)), ApiRoute(Returned(getCache(type, key))))
  /\ UNCHANGED <<cache, cacheTimestamps>>

\* An operation throws: nothing is stored, the route answers with handleError.
Throw(r, c, events, error) ==
  /\ Finish(r, c, events, error, ApiRoute(error))
  /\ UNCHANGED <<cache, cacheTimestamps>>

\* The end of a miss: setCache(type, key, data), then return data.
StoreAndReturn(r, events, type, key, data) ==
  LET s == setCache(type, key, data)
  IN  /\ cache' = s.cache
      /\ cacheTimestamps' = s.cacheTimestamps
      /\ Finish(r, call[r], events \o <<Stored(key)>>, Returned(data),
                ApiRoute(Returned(data)))

\* GET /api/v1/exchanges/:exchangeId, up to the await of loadMarkets.
getExchangeInfo(r, exchangeId) ==
  /\ CanStart(r)
  /\ LET c == Call("ccxt-api", "getExchangeInfo", exchangeId, "", "", Undefined, Undefined)
         cacheKey == keyOf("markets", <<Prop("exchangeId", Str(exchangeId))>>)
         exchange == createExchange(exchangeId)
     IN  IF isCacheValid("markets", cacheKey)
         THEN ServeFromCache(r, c, "markets", cacheKey)
         ELSE IF exchange.kind = "error"
         THEN Throw(r, c, <<CacheRead("markets", cacheKey), Ev("registry", exchangeId)>>, exchange)
         ELSE /\ Await(r, c, <<CacheRead("markets", cacheKey), Ev("registry", exchangeId),
                              Ev("direct", "loadMarkets")>>, "loadMarkets")
              /\ UNCHANGED <<cache, cacheTimestamps>>
  /\ UNCHANGED <<now, ticks, keyVars, registry, wrapperVars>>

\* getExchangeInfo after loadMarkets: the info object is built and stored, or the
\* error of loadMarkets goes up.
getExchangeInfoLoaded(r, o) ==
  /\ pc[r] = "loadMarkets"
  /\ call[r].op = "getExchangeInfo"
  /\ LET exchangeId == call[r].exchangeId
         cacheKey == keyOf("markets", <<Prop("exchangeId", Str(exchangeId))>>)
     IN  IF o.ok
         THEN StoreAndReturn(r, <<Ev("direct.ok", "loadMarkets")>>, "markets", cacheKey, Payload("exchangeInfo", exchangeId, o.v))
         ELSE Throw(r, call[r], <<Ev("direct.failed", "loadMarkets")>>, Thrown(o.v))
  /\ UNCHANGED <<now, ticks, keyVars, registry, wrapperVars>>

\* getMarkets building its key from {exchangeId} alone, as getExchangeInfo does.
getMarketsSharedKey(r, exchangeId) ==
  /\ CanStart(r)
  /\ LET c == Call("ccxt-api", "getMarkets", exchangeId, "", "", Undefined, Undefined)
         cacheKey == keyOf("markets", <<Prop("exchangeId", Str(exchangeId))>>)
         exchange == createExchange(exchangeId)
     IN  IF isCacheValid("markets", cacheKey)
         THEN ServeFromCache(r, c, "markets", cacheKey)
         ELSE IF exchange.kind = "error"
         THEN Throw(r, c, <<CacheRead("markets", cacheKey), Ev("registry", exchangeId)>>, exchange)
         ELSE /\ Await(r, c, <<CacheRead("markets", cacheKey), Ev("registry", exchangeId),
                              Ev("direct", "loadMarkets")>>, "loadMarkets")
              /\ UNCHANGED <<cache, cacheTimestamps>>
  /\ UNCHANGED <<now, ticks, keyVars, registry, wrapperVars>>

\* GET /api/v1/exchanges/:exchangeId/markets, up to the await of loadMarkets.
getMarkets(r, exchangeId) ==
  /\ CanStart(r)
  /\ LET c == Call("ccxt-api", "getMarkets", exchangeId, "", "", Undefined, Undefined)
         cacheKey == keyOf("markets", <<Prop("exchangeId", Str(exchangeId)),
                                        Prop("full", True)>>)
         exchange == createExchange(exchangeId)
     IN  IF isCacheValid("markets", cacheKey)
         THEN ServeFromCache(r, c, "markets", cacheKey)
         ELSE IF exchange.kind = "error"
         THEN Throw(r, c, <<CacheRead("markets", cacheKey), Ev("registry", exchangeId)>>, exchange)
         ELSE /\ Await(r, c, <<CacheRead("markets", cacheKey), Ev("registry", exchangeId),
                              Ev("direct", "loadMarkets")>>, "loadMarkets")
              /\ UNCHANGED <<cache, cacheTimestamps>>
  /\ UNCHANGED <<now, ticks, keyVars, registry, wrapperVars>>

getMarketsLoaded(r, o) ==
  /\ pc[r] = "loadMarkets"
  /\ call[r].op = "getMarkets"
  /\ LET exchangeId == call[r].exchangeId
         cacheKey == keyOf("markets", <<Prop("exchangeId", Str(exchangeId)),
                                        Prop("full", True)>>)
     IN  IF o.ok
         THEN StoreAndReturn(r, <<Ev("direct.ok", "loadMarkets")>>, "markets", cacheKey, Payload("markets", exchangeId, o.v))
         ELSE Throw(r, call[r], <<Ev("direct.failed", "loadMarkets")>>, Thrown(o.v))
  /\ UNCHANGED <<now, ticks, keyVars, registry, wrapperVars>>

\* GET /api/v1/exchanges/:exchangeId/ticker/:symbol, up to the await of fetchTicker.
getTicker(r, exchangeId, symbol) ==
  /\ CanStart(r)
  /\ LET c == Call("ccxt-api", "getTicker", exchangeId, symbol, "", Undefined, Undefined)
         cacheKey == keyOf("tickers", <<Prop("exchangeId", Str(exchangeId)),
                                        Prop("symbol", Str(symbol))>>)
         exchange == createExchange(exchangeId)
     IN  IF isCacheValid("tickers", cacheKey)
         THEN ServeFromCache(r, c, "tickers", cacheKey)
         ELSE IF exchange.kind = "error"
         THEN Throw(r, c, <<CacheRead("tickers", cacheKey), Ev("registry", exchangeId)>>, exchange)
         ELSE /\ Await(r, c, <<CacheRead("tickers", cacheKey), Ev("registry", exchangeId),
                              Ev("direct", "fetchTicker")>>, "fetchTicker")
              /\ UNCHANGED <<cache, cacheTimestamps>>
  /\ UNCHANGED <<now, ticks, keyVars, registry, wrapperVars>>

\* getTicker storing in a finally block: the error of fetchTicker is stored too.
getTickerFetchedCachesError(r, o) ==
  /\ pc[r] = "fetchTicker"
  /\ call[r].handler = "ccxt-api"
  /\ LET exchangeId == call[r].exchangeId
         symbol == call[r].symbol
         cacheKey == keyOf("tickers", <<Prop("exchangeId", Str(exchangeId)),
                                        Prop("symbol", Str(symbol))>>)
         s == setCache("tickers", cacheKey, Payload("error", exchangeId \o " " \o symbol, o.v))
     IN  IF o.ok
         THEN StoreAndReturn(r, <<Ev("direct.ok", "fetchTicker")>>, "tickers", cacheKey,
                             Payload("ticker", exchangeId \o " " \o symbol, o.v))
         ELSE /\ cache' = s.cache
              /\ cacheTimestamps' = s.cacheTimestamps
              /\ Finish(r, call[r], <<Ev("direct.failed", "fetchTicker"), Stored(cacheKey)>>,
                        Thrown(o.v), ApiRoute(Thrown(o.v)))
  /\ UNCHANGED <<now, ticks, keyVars, registry, wrapperVars>>

\* getTicker looking at the cache again after fetchTicker: an entry another request
\* stored meanwhile is returned and the fetched ticker is dropped.
getTickerFetchedCoalesced(r, o) ==
  /\ pc[r] = "fetchTicker"
  /\ call[r].handler = "ccxt-api"
  /\ LET exchangeId == call[r].exchangeId
         symbol == call[r].symbol
         cacheKey == keyOf("tickers", <<Prop("exchangeId", Str(exchangeId)),
                                        Prop("symbol", Str(symbol))>>)
     IN  IF ~o.ok
         THEN Throw(r, call[r], <<Ev("direct.failed", "fetchTicker")>>, Thrown(o.v))
         ELSE IF isCacheValid("tickers", cacheKey)
         THEN /\ Finish(r, call[r], <<Ev("direct.ok", "fetchTicker"), Ev("cache.get", cacheKey)>>,
                        Returned(getCache("tickers", cacheKey)),
                        ApiRoute(Returned(getCache("tickers", cacheKey))))
              /\ UNCHANGED <<cache, cacheTimestamps>>
         ELSE StoreAndReturn(r, <<Ev("direct.ok", "fetchTicker")>>, "tickers", cacheKey,
                             Payload("ticker", exchangeId \o " " \o symbol, o.v))
  /\ UNCHANGED <<now, ticks, keyVars, registry, wrapperVars>>

\* getTicker keeping the entry another request stored meanwhile: the fetched
\* ticker is returned, and stored only when the key has no entry yet.
getTickerFetchedFirstWins(r, o) ==
  /\ pc[r] = "fetchTicker"
  /\ call[r].handler = "ccxt-api"
  /\ LET exchangeId == call[r].exchangeId
         symbol == call[r].symbol
         cacheKey == keyOf("tickers", <<Prop("exchangeId", Str(exchangeId)),
                                        Prop("symbol", Str(symbol))>>)
         ticker == Payload("ticker", exchangeId \o " " \o symbol, o.v)
     IN  IF ~o.ok
         THEN Throw(r, call[r], <<Ev("direct.failed", "fetchTicker")>>, Thrown(o.v))
         ELSE IF MapHas(cache.tickers, cacheKey)
         THEN /\ Finish(r, call[r], <<Ev("direct.ok", "fetchTicker"), Stored(cacheKey)>>,
                        Returned(ticker), ApiRoute(Returned(ticker)))
              /\ UNCHANGED <<cache, cacheTimestamps>>
         ELSE StoreAndReturn(r, <<Ev("direct.ok", "fetchTicker")>>, "tickers", cacheKey, ticker)
  /\ UNCHANGED <<now, ticks, keyVars, registry, wrapperVars>>

\* getTicker returning the fetched ticker without the setCache.
getTickerFetchedNoStore(r, o) ==
  /\ pc[r] = "fetchTicker"
  /\ call[r].handler = "ccxt-api"
  /\ LET ticker == Payload("ticker", call[r].exchangeId \o " " \o call[r].symbol, o.v)
     IN  IF o.ok
         THEN /\ Finish(r, call[r], <<Ev("direct.ok", "fetchTicker")>>, Returned(ticker),
                        ApiRoute(Returned(ticker)))
              /\ UNCHANGED <<cache, cacheTimestamps>>
         ELSE Throw(r, call[r], <<Ev("direct.failed", "fetchTicker")>>, Thrown(o.v))
  /\ UNCHANGED <<now, ticks, keyVars, registry, wrapperVars>>

getTickerFetched(r, o) ==
  /\ pc[r] = "fetchTicker"
  /\ call[r].handler = "ccxt-api"
  /\ LET exchangeId == call[r].exchangeId
         symbol == call[r].symbol
         cacheKey == keyOf("tickers", <<Prop("exchangeId", Str(exchangeId)),
                                        Prop("symbol", Str(symbol))>>)
     IN  IF o.ok
         THEN StoreAndReturn(r, <<Ev("direct.ok", "fetchTicker")>>, "tickers", cacheKey,
                             Payload("ticker", exchangeId \o " " \o symbol, o.v))
         ELSE Throw(r, call[r], <<Ev("direct.failed", "fetchTicker")>>, Thrown(o.v))
  /\ UNCHANGED <<now, ticks, keyVars, registry, wrapperVars>>

\* parseInt(x, 10) of a query value: the number for a number or a string of digits
\* ("50"), NaN for any other string ("abc").
parseInt(x) ==
  CASE x.t = "number" -> x
    [] x.t = "string" /\ x.v = "50" -> Num("50")
    [] OTHER -> NaN

\* The cache key of getOHLCV: all five arguments, in this order.
ohlcvCacheKey(exchangeId, symbol, timeframe, limit, since) ==
  keyOf("ohlcv", <<Prop("exchangeId", Str(exchangeId)), Prop("symbol", Str(symbol)),
                   Prop("timeframe", Str(timeframe)), Prop("limit", limit),
                   Prop("since", since)>>)

\* GET /api/v1/exchanges/:exchangeId/ohlcv/:symbol with its query: limit (100 when
\* absent) and since go through parseInt; getOHLCV's defaults apply to an undefined
\* timeframe and limit. Up to the await of loadMarkets.
getOHLCV(r, exchangeId, symbol, timeframe, limitQuery, sinceQuery) ==
  /\ CanStart(r)
  /\ LET parsedLimit == parseInt(IF limitQuery.t = "undefined" THEN Num("100") ELSE limitQuery)
         parsedSince == IF sinceQuery.t = "undefined" \/ sinceQuery.v = ""
                        THEN Undefined ELSE parseInt(sinceQuery)
         limit == IF parsedLimit.t = "undefined" THEN Num("100") ELSE parsedLimit
         cacheKey == ohlcvCacheKey(exchangeId, symbol, timeframe, limit, parsedSince)
         c == [Call("ccxt-api", "getOHLCV", exchangeId, symbol, timeframe, limit, parsedSince)
                 EXCEPT !.cacheKey = cacheKey]
         exchange == createExchange(exchangeId)
     IN  IF isCacheValid("ohlcv", cacheKey)
         THEN ServeFromCache(r, c, "ohlcv", cacheKey)
         ELSE IF exchange.kind = "error"
         THEN Throw(r, c, <<CacheRead("ohlcv", cacheKey), Ev("registry", exchangeId)>>, exchange)
         ELSE IF ~hasFetchOHLCV(exchangeId)
         THEN Throw(r, c, <<CacheRead("ohlcv", cacheKey), Ev("registry", exchangeId)>>,
                    Thrown("exchange " \o exchangeId \o " does not support fetching OHLCV"))
         ELSE /\ Await(r, c, <<CacheRead("ohlcv", cacheKey), Ev("registry", exchangeId),
                              Ev("direct", "loadMarkets")>>, "loadMarkets")
              /\ UNCHANGED <<cache, cacheTimestamps>>
  /\ UNCHANGED <<now, ticks, keyVars, registry, wrapperVars>>

\* getOHLCV without the check of the timeframe: fetchOHLCV is awaited for any.
getOHLCVLoadedAnyTimeframe(r, o) ==
  /\ pc[r] = "loadMarkets"
  /\ call[r].op = "getOHLCV"
  /\ IF ~o.ok
     THEN Throw(r, call[r], <<Ev("direct.failed", "loadMarkets")>>, Thrown(o.v))
     ELSE /\ Await(r, call[r], <<Ev("direct.ok", "loadMarkets"), Ev("direct", "fetchOHLCV")>>, "fetchOHLCV")
          /\ UNCHANGED <<cache, cacheTimestamps>>
  /\ UNCHANGED <<now, ticks, keyVars, registry, wrapperVars>>

\* getOHLCV after loadMarkets: the timeframe is checked, then fetchOHLCV is awaited.
\* getOHLCV with a loadMarkets whose rejection is swallowed: the request waits on.
getOHLCVLoadedHangs(r, o) ==
  /\ pc[r] = "loadMarkets"
  /\ call[r].op = "getOHLCV"
  /\ LET exchangeId == call[r].exchangeId
         timeframe == call[r].timeframe
     IN  IF ~o.ok
         THEN /\ Await(r, call[r], <<Ev("direct.failed", "loadMarkets")>>, "hung")
              /\ UNCHANGED <<cache, cacheTimestamps>>
         ELSE IF timeframe \notin timeframes(exchangeId)
         THEN Throw(r, call[r], <<Ev("direct.ok", "loadMarkets")>>,
                    Thrown("exchange " \o exchangeId \o " does not support timeframe "
                           \o timeframe))
         ELSE /\ Await(r, call[r], <<Ev("direct.ok", "loadMarkets"), Ev("direct", "fetchOHLCV")>>, "fetchOHLCV")
              /\ UNCHANGED <<cache, cacheTimestamps>>
  /\ UNCHANGED <<now, ticks, keyVars, registry, wrapperVars>>

getOHLCVLoaded(r, o) ==
  /\ pc[r] = "loadMarkets"
  /\ call[r].op = "getOHLCV"
  /\ LET exchangeId == call[r].exchangeId
         timeframe == call[r].timeframe
     IN  IF ~o.ok
         THEN Throw(r, call[r], <<Ev("direct.failed", "loadMarkets")>>, Thrown(o.v))
         ELSE IF timeframe \notin timeframes(exchangeId)
         THEN Throw(r, call[r], <<Ev("direct.ok", "loadMarkets")>>,
                    Thrown("exchange " \o exchangeId \o " does not support timeframe "
                           \o timeframe))
         ELSE /\ Await(r, call[r], <<Ev("direct.ok", "loadMarkets"), Ev("direct", "fetchOHLCV")>>, "fetchOHLCV")
              /\ UNCHANGED <<cache, cacheTimestamps>>
  /\ UNCHANGED <<now, ticks, keyVars, registry, wrapperVars>>

getOHLCVFetched(r, o) ==
  /\ pc[r] = "fetchOHLCV"
  /\ call[r].op = "getOHLCV"
  /\ LET c == call[r]
         cacheKey == c.cacheKey
     IN  IF o.ok
         THEN StoreAndReturn(r, <<Ev("direct.ok", "fetchOHLCV")>>, "ohlcv", cacheKey,
                             Payload("ohlcv", c.exchangeId \o " " \o c.symbol \o " " \o c.timeframe,
                                     o.v))
         ELSE Throw(r, c, <<Ev("direct.failed", "fetchOHLCV")>>, Thrown(o.v))
  /\ UNCHANGED <<now, ticks, keyVars, registry, wrapperVars>>

(* ------------------------------------------------------------- ccxt-simple.js *)
\* GET /exchange/:id/ticker/:symbol of ccxt-simple.js, up to the await of
\* fetchTicker: 404 with the identifier for an exchange ccxt does not list. No cache.
simpleTicker(r, exchangeId, symbol) ==
  /\ CanStart(r)
  /\ LET c == Call("ccxt-simple", "ticker", exchangeId, symbol, "", Undefined, Undefined)
     IN  IF exchangeId \notin ccxtExchanges
         THEN Finish(r, c, <<Ev("registry", exchangeId)>>, NoResult,
                     ErrorStringResponse(404, "unsupported exchange: " \o exchangeId))
         ELSE Await(r, c, <<Ev("registry", exchangeId), Ev("direct", "fetchTicker")>>,
                    "fetchTicker")
  /\ UNCHANGED <<now, ticks, cache, cacheTimestamps, keyVars, registry, wrapperVars>>

\* ccxt-simple.js after fetchTicker: 200 with the ticker's fields, or the catch
\* block's 500 with the error's message.
\* The properties of a ccxt ticker the handler reads: last, percentage, high, low,
\* baseVolume, timestamp.
ccxtTickerKeys == {"last", "percentage", "high", "low", "baseVolume", "timestamp"}

\* The body the handler builds from the ticker: exchange is the identifier of the
\* path, timestamp is that of the ticker, raw is the ticker itself.
simpleTickerKeys ==
  {"exchange", "symbol", "price", "change", "high", "low", "volume", "timestamp", "raw"}
simpleBody(exchangeId, symbol, data) ==
  [shape |-> "simpleTicker", of |-> exchangeId \o " " \o symbol, data |-> data,
   exchange |-> exchangeId, keys |-> simpleTickerKeys]

simpleTickerFetched(r, o) ==
  /\ pc[r] = "fetchTicker"
  /\ call[r].handler = "ccxt-simple"
  /\ LET c == call[r]
         ticker == simpleBody(c.exchangeId, c.symbol, o.v)
     IN  IF o.ok
         THEN Finish(r, c, <<Ev("direct.ok", "fetchTicker")>>, Returned(ticker),
                     JsonResponse(200, ticker))
         ELSE Finish(r, c, <<Ev("direct.failed", "fetchTicker")>>, Thrown(o.v),
                     ErrorStringResponse(500, o.v))
  /\ UNCHANGED <<now, ticks, cache, cacheTimestamps, keyVars, registry, wrapperVars>>

(* ------------------------------------------- part_002: the Express candles route *)
\* The handler answers with {error: {status, message}} itself.
ExpressError(status, message) == ErrorObjectResponse(status, status, message)

\* GET /api/v1/ccxt/ohlcv/:exchangeId/:symbol of the Express API, up to the await
\* of loadMarkets: 404 for an exchange ccxt does not list, 400 for one without
\* fetchOHLCV. No cache.
ccxtOhlcv(r, exchangeId, symbol, timeframe) ==
  /\ CanStart(r)
  /\ LET c == Call("express", "ccxtOhlcv", exchangeId, symbol, timeframe, Num("100"), Undefined)
     IN  IF exchangeId \notin ccxtExchanges
         THEN Finish(r, c, <<Ev("registry", exchangeId)>>, NoResult,
                     ExpressError(404, "unsupported exchange: " \o exchangeId))
         ELSE IF ~hasFetchOHLCV(exchangeId)
         THEN Finish(r, c, <<Ev("registry", exchangeId)>>, NoResult,
                     ExpressError(400, "exchange " \o exchangeId
                                       \o " does not support fetching OHLCV"))
         ELSE Await(r, c, <<Ev("registry", exchangeId), Ev("direct", "loadMarkets")>>,
                    "loadMarkets")
  /\ UNCHANGED <<now, ticks, cache, cacheTimestamps, keyVars, registry, wrapperVars>>

\* The route after loadMarkets: 400 for a timeframe the exchange does not have,
\* else the await of fetchOHLCV; the catch block's 500 when loadMarkets failed.
ccxtOhlcvLoaded(r, o) ==
  /\ pc[r] = "loadMarkets"
  /\ call[r].op = "ccxtOhlcv"
  /\ LET c == call[r]
     IN  IF ~o.ok
         THEN Finish(r, c, <<Ev("direct.failed", "loadMarkets")>>, Thrown(o.v),
                     ExpressError(500, "failed to fetch OHLCV data"))
         ELSE IF c.timeframe \notin timeframes(c.exchangeId)
         THEN Finish(r, c, <<Ev("direct.ok", "loadMarkets")>>, NoResult,
                     ExpressError(400, "exchange " \o c.exchangeId
                                       \o " does not support timeframe " \o c.timeframe))
         ELSE Await(r, c, <<Ev("direct.ok", "loadMarkets"), Ev("direct", "fetchOHLCV")>>,
                    "fetchOHLCV")
  /\ UNCHANGED <<now, ticks, cache, cacheTimestamps, keyVars, registry, wrapperVars>>

\* The route after fetchOHLCV: res.json(ohlcv), or the catch block's 500.
ccxtOhlcvFetched(r, o) ==
  /\ pc[r] = "fetchOHLCV"
  /\ call[r].op = "ccxtOhlcv"
  /\ LET c == call[r]
         ohlcv == Payload("ohlcv", c.exchangeId \o " " \o c.symbol \o " " \o c.timeframe, o.v)
     IN  IF o.ok
         THEN Finish(r, c, <<Ev("direct.ok", "fetchOHLCV")>>, Returned(ohlcv),
                     JsonResponse(200, ohlcv))
         ELSE Finish(r, c, <<Ev("direct.failed", "fetchOHLCV")>>, Thrown(o.v),
                     ExpressError(500, "failed to fetch OHLCV data"))
  /\ UNCHANGED <<now, ticks, cache, cacheTimestamps, keyVars, registry, wrapperVars>>

(* ------------------------------------------------- part_002: the relay adapter *)
RELAY_URL == "https://api.allorigins.win/raw?url="

API_BASE_URLS ==
  [binance |-> "https://api.binance.com", gateio |-> "https://api.gateio.ws",
   kucoin |-> "https://api.kucoin.com", okx |-> "https://www.okx.com",
   huobi |-> "https://api.huobi.pro", bitget |-> "https://api.bitget.com",
   mexc |-> "https://api.mexc.com", bybit |-> "https://api.bybit.com",
   coinex |-> "https://api.coinex.com", bitfinex |-> "https://api.bitfinex.com"]

\* The two constants as the module leaves them when it has loaded: an array and an
\* object, which a const binding does not freeze.
loadedRegistry ==
  [SUPPORTED_EXCHANGES |-> SUPPORTED_EXCHANGES, API_BASE_URLS |-> API_BASE_URLS]

LowerCaseLetters == "abcdefghijklmnopqrstuvwxyz"
UpperCaseLetters == "ABCDEFGHIJKLMNOPQRSTUVWXYZ"

\* The character ch, mapped from the alphabet from to the alphabet to.
MapChar(ch, from, to) ==
  IF \E i \in 1..Len(from) : SubSeq(from, i, i) = ch
  THEN LET i == CHOOSE i \in 1..Len(from) : SubSeq(from, i, i) = ch IN SubSeq(to, i, i)
  ELSE ch

RECURSIVE MapString(_, _, _)
MapString(str, from, to) ==
  IF str = "" THEN ""
  ELSE MapChar(SubSeq(str, 1, 1), from, to) \o MapString(SubSeq(str, 2, Len(str)), from, to)

toLowerCase(str) == MapString(str, UpperCaseLetters, LowerCaseLetters)
toUpperCase(str) == MapString(str, LowerCaseLetters, UpperCaseLetters)

\* str.replace(pattern, by) with a one-character string pattern: the first
\* occurrence only.
replace(str, pattern, by) ==
  IF \E i \in 1..Len(str) : SubSeq(str, i, i) = pattern
  THEN LET i == CHOOSE i \in 1..Len(str) :
                  /\ SubSeq(str, i, i) = pattern
                  /\ \A j \in 1..(i - 1) : SubSeq(str, j, j) # pattern
       IN  SubSeq(str, 1, i - 1) \o by \o SubSeq(str, i + 1, Len(str))
  ELSE str

\* encodeURIComponent: the reserved characters of these URLs, percent-encoded.
EncodeChar(ch) ==
  CASE ch = ":" -> "%3A"
    [] ch = "/" -> "%2F"
    [] ch = "?" -> "%3F"
    [] ch = "=" -> "%3D"
    [] ch = "&" -> "%26"
    [] OTHER -> ch

RECURSIVE encodeURIComponent(_)
encodeURIComponent(str) ==
  IF str = "" THEN ""
  ELSE EncodeChar(SubSeq(str, 1, 1)) \o encodeURIComponent(SubSeq(str, 2, Len(str)))

\* getExchangeEndpoint(exchange, endpoint): the base URL of a listed exchange and
\* the path; it throws for an exchange without a base URL.
getExchangeEndpoint(exchange, endpoint) ==
  IF toLowerCase(exchange) \notin DOMAIN registry.API_BASE_URLS
  THEN Thrown("unsupported exchange: " \o exchange)
  ELSE Returned(Payload("url", registry.API_BASE_URLS[toLowerCase(exchange)] \o endpoint, ""))

\* The exchanges the two switches of adapter.getTicker have a case for.
TickerBranches == {"binance", "gateio", "kucoin"}

\* The URL adapter.getTicker builds for an exchange it has a branch for; the
\* default branch throws.
tickerUrl(exchange, symbol) ==
  LET formattedSymbol == toUpperCase(replace(symbol, "/", "_"))
  IN  CASE toLowerCase(exchange) = "binance" ->
             getExchangeEndpoint("binance", "/api/v3/ticker/price?symbol="
                                            \o replace(symbol, "/", ""))
        [] toLowerCase(exchange) = "gateio" ->
             getExchangeEndpoint("gateio", "/api/v4/spot/tickers?currency_pair="
                                           \o formattedSymbol)
        [] toLowerCase(exchange) = "kucoin" ->
             getExchangeEndpoint("kucoin", "/api/v1/market/orderbook/level1?symbol="
                                           \o symbol)
        [] OTHER -> Thrown("ticker not yet supported for exchange: " \o exchange)

\* The catch block throwing the error on: the handler rejects, there is no response.
relayCatchRethrows(error) == NoResponse

\* createHandler's catch block: 500 and {error: error.message}.
relayCatch(error) == ErrorStringResponse(500, error.message)

\* adapter.getTicker trying the exchange directly before the relay, the direct call
\* having failed.
relayTickerDirectFirst(r, exchange, symbol) ==
  /\ CanStart(r)
  /\ LET c == Call("relay", "ticker", exchange, symbol, "", Undefined, Undefined)
         url == tickerUrl(exchange, symbol)
     IN  IF toLowerCase(exchange) \notin registry.SUPPORTED_EXCHANGES
         THEN Finish(r, c, <<Ev("registry", exchange)>>,
                     Thrown("unsupported exchange: " \o exchange),
                     relayCatch(Thrown("unsupported exchange: " \o exchange)))
         ELSE IF url.kind = "error"
         THEN Finish(r, c, <<Ev("registry", exchange)>>, url, relayCatch(url))
         ELSE Await(r, c, <<Ev("registry", exchange), Ev("direct", "fetchTicker"),
                            Ev("direct.failed", "fetchTicker"),
                            Ev("relay", RELAY_URL \o encodeURIComponent(url.payload.of))>>,
                    "relay")
  /\ UNCHANGED <<now, ticks, cache, cacheTimestamps, keyVars, registry, wrapperVars>>

\* GET /exchange/:exchangeId/ticker/:symbol of the relay adapter's handler, up to
\* the await of axios.get inside fetchViaRelay. No cache, no direct call.
\* getTicker adding an identifier it does not know to SUPPORTED_EXCHANGES before
\* it throws.
relayTickerRegistering(r, exchange, symbol) ==
  /\ CanStart(r)
  /\ LET c == Call("relay", "ticker", exchange, symbol, "", Undefined, Undefined)
         url == tickerUrl(exchange, symbol)
     IN  IF toLowerCase(exchange) \notin registry.SUPPORTED_EXCHANGES
         THEN /\ Finish(r, c, <<Ev("registry", exchange)>>,
                        Thrown("unsupported exchange: " \o exchange),
                        relayCatch(Thrown("unsupported exchange: " \o exchange)))
              /\ registry' = [registry EXCEPT !.SUPPORTED_EXCHANGES =
                                                @ \cup {toLowerCase(exchange)}]
         ELSE IF url.kind = "error"
         THEN Finish(r, c, <<Ev("registry", exchange)>>, url, relayCatch(url))
              /\ UNCHANGED registry
         ELSE Await(r, c, <<Ev("registry", exchange),
                            Ev("relay", RELAY_URL \o encodeURIComponent(url.payload.of))>>,
                    "relay")
              /\ UNCHANGED registry
  /\ UNCHANGED <<now, ticks, cache, cacheTimestamps, keyVars, wrapperVars>>

\* adapter.getTicker handing the URL it built to axios.get itself, without
\* fetchViaRelay.
relayGetTickerDirect(r, c, exchange, symbol) ==
  LET url == tickerUrl(exchange, symbol)
  IN  IF toLowerCase(exchange) \notin registry.SUPPORTED_EXCHANGES
      THEN Finish(r, c, <<Ev("registry", exchange)>>,
                  Thrown("unsupported exchange: " \o exchange),
                  relayCatch(Thrown("unsupported exchange: " \o exchange)))
      ELSE IF url.kind = "error"
      THEN Finish(r, c, <<Ev("registry", exchange)>>, url, relayCatch(url))
      ELSE Await(r, c, <<Ev("registry", exchange), Ev("direct", url.payload.of)>>, "relay")

\* adapter.getTicker(exchange, symbol) for the request c, to the await in
\* fetchViaRelay; what it throws goes to the catch block of the handler.
relayGetTicker(r, c, exchange, symbol) ==
  LET url == tickerUrl(exchange, symbol)
  IN  IF toLowerCase(exchange) \notin registry.SUPPORTED_EXCHANGES
      THEN Finish(r, c, <<Ev("registry", exchange)>>,
                  Thrown("unsupported exchange: " \o exchange),
                  relayCatch(Thrown("unsupported exchange: " \o exchange)))
      ELSE IF url.kind = "error"
      THEN Finish(r, c, <<Ev("registry", exchange)>>, url, relayCatch(url))
      ELSE Await(r, c, <<Ev("registry", exchange),
                         Ev("relay", RELAY_URL \o encodeURIComponent(url.payload.of))>>,
                 "relay")

relayTicker(r, exchange, symbol) ==
  /\ CanStart(r)
  /\ relayGetTicker(r, Call("relay", "ticker", exchange, symbol, "", Undefined, Undefined),
                    exchange, symbol)
  /\ UNCHANGED <<now, ticks, cache, cacheTimestamps, keyVars, registry, wrapperVars>>

\* The second switch of the relay adapter's getTicker: the exchange property is a
\* display name, the properties are those the branch of the exchange sets, and
\* timestamp is the time of the decoding (kucoin: that of the data).
relayExchangeName(lower) ==
  CASE lower = "binance" -> "Binance"
    [] lower = "gateio" -> "Gate.io"
    [] lower = "kucoin" -> "KuCoin"
    [] OTHER -> ""
relayTickerKeys(lower) ==
  CASE lower = "gateio" ->
         {"exchange", "symbol", "price", "change", "high", "low", "volume", "timestamp"}
    [] lower \in {"binance", "kucoin"} -> {"exchange", "symbol", "price", "timestamp"}
    [] OTHER -> {}
\* exchange.toLowerCase() for each identifier a request can carry, computed once.
lowerCased == [e \in RelayExchangeIds \cup TickerBranches |-> toLowerCase(e)]
relayDecode(exchange, symbol, data) ==
  LET lower == lowerCased[exchange]
  IN  [shape |-> "relayTicker", of |-> exchange \o " " \o symbol, data |-> data,
       exchange |-> relayExchangeName(lower), keys |-> relayTickerKeys(lower)]

\* fetchViaRelay calling axios.get again after a failure.
relayTickerFetchedRetries(r, o) ==
  /\ pc[r] = "relay"
  /\ LET c == call[r]
         decoded == relayDecode(c.exchangeId, c.symbol, o.v)
     IN  IF o.ok
         THEN Finish(r, c, <<Ev("relay.ok", "")>>, Returned(decoded), JsonResponse(200, decoded))
         ELSE /\ Len(log[r]) < 6
              /\ Await(r, c, <<Ev("relay.failed", ""), Ev("relay", "again")>>, "relay")
  /\ UNCHANGED <<now, ticks, cache, cacheTimestamps, keyVars, registry, wrapperVars>>

\* fetchViaRelay's end and the rest of adapter.getTicker: the decoded result, or
\* the relay error, which wraps the message of the error axios threw.
relayTickerFetched(r, o) ==
  /\ pc[r] = "relay"
  /\ LET c == call[r]
         decoded == relayDecode(c.exchangeId, c.symbol, o.v)
         error == Thrown("relay request failed: " \o o.v)
     IN  IF o.ok
         THEN Finish(r, c, <<Ev("relay.ok", "")>>, Returned(decoded), JsonResponse(200, decoded))
         ELSE Finish(r, c, <<Ev("relay.failed", "")>>, error, relayCatch(error))
  /\ UNCHANGED <<now, ticks, cache, cacheTimestamps, keyVars, registry, wrapperVars>>

(* ----------------------------------------- part_002: the relay adapter's handler *)
\* str.split(sep) for a one-character separator: the pieces between the separators,
\* the empty ones too.
RECURSIVE splitFrom(_, _, _)
splitFrom(str, sep, piece) ==
  IF str = "" THEN <<piece>>
  ELSE IF SubSeq(str, 1, 1) = sep
       THEN <<piece>> \o splitFrom(SubSeq(str, 2, Len(str)), sep, "")
       ELSE splitFrom(SubSeq(str, 2, Len(str)), sep, piece \o SubSeq(str, 1, 1))
split(str, sep) == splitFrom(str, sep, "")

\* path.match(/^\/exchange\/([^\/]+)\/ticker\/([^\/]+)$/): the two groups, <<>> for
\* null.
tickerMatch(path) ==
  LET p == split(path, "/")
  IN  IF /\ Len(p) = 5
         /\ p[1] = "" /\ p[2] = "exchange" /\ p[3] # "" /\ p[4] = "ticker" /\ p[5] # ""
      THEN <<p[3], p[5]>>
      ELSE <<>>

\* decodeURIComponent: it throws URIError for a % that two hexadecimal digits do
\* not follow; the escapes that encodeURIComponent above writes are decoded.
HexDigits == {"0", "1", "2", "3", "4", "5", "6", "7", "8", "9",
              "A", "B", "C", "D", "E", "F", "a", "b", "c", "d", "e", "f"}
RECURSIVE malformedURI(_)
malformedURI(str) ==
  IF str = "" THEN FALSE
  ELSE IF SubSeq(str, 1, 1) # "%" THEN malformedURI(SubSeq(str, 2, Len(str)))
  ELSE \/ Len(str) < 3
       \/ SubSeq(str, 2, 2) \notin HexDigits
       \/ SubSeq(str, 3, 3) \notin HexDigits
       \/ malformedURI(SubSeq(str, 4, Len(str)))
DecodeEscape(esc) ==
  CASE esc = "%3A" -> ":"
    [] esc = "%2F" -> "/"
    [] esc = "%3F" -> "?"
    [] esc = "%3D" -> "="
    [] esc = "%26" -> "&"
    [] OTHER -> esc
RECURSIVE decodeURIComponent(_)
decodeURIComponent(str) ==
  IF str = "" THEN ""
  ELSE IF SubSeq(str, 1, 1) = "%" /\ Len(str) >= 3
       THEN DecodeEscape(SubSeq(str, 1, 3)) \o decodeURIComponent(SubSeq(str, 4, Len(str)))
       ELSE SubSeq(str, 1, 1) \o decodeURIComponent(SubSeq(str, 2, Len(str)))

\* event.path: absent, or one of these strings.
RelayPaths ==
  {"", "/", "/exchanges", "/exchanges/", "/invalid/route",
   "/exchange/gateio/ticker/BTC%2FUSDT", "/exchange/okx/ticker/BTC%2FUSDT",
   "/exchange/binance/ticker/BTC%2FUSDT", "/exchange/kucoin/ticker/BTC%2FUSDT",
   "/exchange/not-a-real-exchange/ticker/BTC%2FUSDT", "/exchange/gateio/ticker/BTC%2"}
EventPaths == {Undefined} \cup {Str(p) : p \in RelayPaths}

\* The match and the decoding of each of these paths, evaluated once.
routed ==
  [p \in RelayPaths |->
     LET m == tickerMatch(p)
     IN  [match |-> m,
          malformed |-> IF m = <<>> THEN FALSE ELSE malformedURI(m[2]),
          symbol |-> IF m = <<>> \/ malformedURI(m[2]) THEN "" ELSE decodeURIComponent(m[2])]]

\* The handler createHandler returns, for an event with this path, to its return or
\* to the await in fetchViaRelay.
relayHandler(r, eventPath) ==
  /\ CanStart(r)
  /\ LET path == IF eventPath = Undefined \/ eventPath.v = "" THEN "" ELSE eventPath.v
         m == routed[path].match
         c == [Call("relay", "", "", "", "", Undefined, Undefined) EXCEPT !.path = path]
         health == Payload("health", "ccxt-relay-adapter", "")
         exchanges == Payload("exchanges", "SUPPORTED_EXCHANGES", "")
     IN  IF path \in {"", "/"}
         THEN Finish(r, [c EXCEPT !.op = "health"], <<>>, Returned(health),
                     JsonResponse(200, health))
         ELSE IF path = "/exchanges"
         THEN Finish(r, [c EXCEPT !.op = "getExchanges"], <<>>, Returned(exchanges),
                     JsonResponse(200, exchanges))
         ELSE IF m # <<>>
         THEN IF routed[path].malformed
              THEN Finish(r, [c EXCEPT !.op = "ticker", !.exchangeId = m[1]], <<>>,
                          Thrown("URI malformed"), relayCatch(Thrown("URI malformed")))
              ELSE relayGetTicker(r, [c EXCEPT !.op = "ticker", !.exchangeId = m[1],
                                               !.symbol = routed[path].symbol],
                                  m[1], routed[path].symbol)
         ELSE Finish(r, [c EXCEPT !.op = "notFound"], <<>>, NoResult,
                     ErrorStringResponse(404, "resource not found"))
  /\ UNCHANGED <<now, ticks, cache, cacheTimestamps, keyVars, registry, wrapperVars>>

(* ------------------------------------------------- api.js: the full API handler *)
\* new ApiError(message, statusCode, source), of lib/api-client: an Error that
\* keeps its statusCode and its source.
ApiError(message, statusCode, source) ==
  [kind |-> "apiError", payload |-> Payload("source", source, ""), message |-> message,
   status |-> statusCode]

\* The error middleware: the statusCode of an ApiError, 500 for any other error;
\* the body is {error: {status, message, source, timestamp}}.
errorMiddleware(err) ==
  LET status == IF err.kind = "apiError" THEN err.status ELSE 500
  IN  ErrorObjectResponse(status, status, err.message)

\* !x of a value of the query string or of the JSON body.
Falsy(x) == x.t \in {"undefined", "null", "NaN"} \/ (x.t = "string" /\ x.v = "")

\* The values handed in under the names, as the pairs of req.query or req.body.
Given(names, args) == {<<n, args[n]>> : n \in names}

\* A route that checks its parameters and then awaits its adapter or service:
\* next(new ApiError(..., 400, ...)) when the check fails, the call otherwise.
ValidatedRoute(r, op, given, missing, message, source) ==
  /\ CanStart(r)
  /\ LET c == [Call("api", op, "", "", "", Undefined, Undefined) EXCEPT !.given = given]
         error == ApiError(message, 400, source)
     IN  IF missing
         THEN Finish(r, c, <<Ev("validate", op)>>, error, errorMiddleware(error))
         ELSE Await(r, c, <<Ev("validate", op), Ev("adapter", op)>>, "adapter")
  /\ UNCHANGED <<now, ticks, cache, cacheTimestamps, keyVars, registry, wrapperVars>>

RpcNames == {"method"}
QuoteNames == {"fromTokenAddress", "toTokenAddress", "amount"}
SwapNames == {"fromTokenAddress", "toTokenAddress", "amount", "fromAddress"}
BroadcastNames == {"chain", "signedTx"}

\* POST /api/v1/ankr/rpc/:chain with the JSON body rpcRequest.
ankrRpc(r, rpcRequest) ==
  ValidatedRoute(r, "sendRpcRequest", Given(RpcNames, rpcRequest),
                 Falsy(rpcRequest["method"]), "invalid RPC request", "ANKR_RPC")

\* GET /api/v1/1inch/quote/:chainId with its query.
oneInchQuote(r, query) ==
  ValidatedRoute(r, "getQuote", Given(QuoteNames, query),
                 Falsy(query["fromTokenAddress"]) \/ Falsy(query["toTokenAddress"])
                   \/ Falsy(query["amount"]),
                 "missing parameters: fromTokenAddress, toTokenAddress, amount", "1INCH_QUOTE")

\* The swap route checking the three parameters of the quote only.
oneInchSwapAsQuote(r, query) ==
  ValidatedRoute(r, "getSwap", Given(SwapNames, query),
                 Falsy(query["fromTokenAddress"]) \/ Falsy(query["toTokenAddress"])
                   \/ Falsy(query["amount"]),
                 "missing parameters: fromTokenAddress, toTokenAddress, amount, fromAddress",
                 "1INCH_SWAP")

\* GET /api/v1/1inch/swap/:chainId with its query.
oneInchSwap(r, query) ==
  ValidatedRoute(r, "getSwap", Given(SwapNames, query),
                 Falsy(query["fromTokenAddress"]) \/ Falsy(query["toTokenAddress"])
                   \/ Falsy(query["amount"]) \/ Falsy(query["fromAddress"]),
                 "missing parameters: fromTokenAddress, toTokenAddress, amount, fromAddress",
                 "1INCH_SWAP")

\* POST /api/v1/broadcast/transaction with the JSON body.
broadcastTransaction(r, body) ==
  ValidatedRoute(r, "broadcastTransaction", Given(BroadcastNames, body),
                 Falsy(body["chain"]) \/ Falsy(body["signedTx"]),
                 "missing parameters: chain, signedTx", "BROADCAST")

\* What a rejected call of an adapter or service of lib/ throws: an Error, or an
\* ApiError with a status of its own.
AdapterErrors(message) == {Thrown(message), ApiError(message, 502, "ADAPTER")}

\* The route after its await: res.json(result), or next(error).
validatedRouteDone(r, o, error) ==
  /\ pc[r] = "adapter"
  /\ LET c == call[r]
         data == Payload(c.op, "", o.v)
     IN  IF o.ok
         THEN Finish(r, c, <<Ev("adapter.ok", c.op)>>, Returned(data), JsonResponse(200, data))
         ELSE Finish(r, c, <<Ev("adapter.failed", c.op)>>, error, errorMiddleware(error))
  /\ UNCHANGED <<now, ticks, cache, cacheTimestamps, keyVars, registry, wrapperVars>>

(* ------------------------------------- ccxt-api.js, api.js: exported handler *)
\* The result of serverless(app): a status code, the headers as an object from
\* name to value, and the body.
AppResult(statusCode, headers, body) ==
  [statusCode |-> statusCode, headers |-> headers, body |-> body]

NoAppResult == AppResult(0, {}, "")

\* result.headers[name]: undefined when the object has no such property.
HeaderOf(headers, name) == IF MapHas(headers, name) THEN MapGet(headers, name) ELSE Undefined

\* The exported handler adding the header whatever the status code.
handlerAnyStatus(res) ==
  IF Falsy(HeaderOf(res.headers, "Cache-Control"))
  THEN [res EXCEPT !.headers = MapPut(@, "Cache-Control", Str("public, max-age=60"))]
  ELSE res

\* module.exports.handler, after `const result = await handler(event, context)`:
\* for a status code in 200..399, when !result.headers['Cache-Control'], the
\* header is set; the same object is returned.
handler(res) ==
  IF res.statusCode >= 200 /\ res.statusCode < 400
  THEN IF Falsy(HeaderOf(res.headers, "Cache-Control"))
       THEN [res EXCEPT !.headers = MapPut(@, "Cache-Control", Str("public, max-age=60"))]
       ELSE res
  ELSE res

\* The exported handler returns for the result the app gave.
handlerReturns ==
  /\ handlerResult = NoAppResult
  /\ handlerResult' = handler(appResult)
  /\ UNCHANGED <<coreVars, keyVars, registry, appResult>>

(* --------------------------------------------------------------------- clock *)
\* The steps the clock takes between two reads of Date.now(): one millisecond less
\* than a TTL, or that TTL.
Deltas == UNION {{CACHE_TTL[t] - 1, CACHE_TTL[t]} : t \in DOMAIN CACHE_TTL}

\* The same for the candles entries alone.
OhlcvDeltas == {CACHE_TTL.ohlcv - 1, CACHE_TTL.ohlcv}

Tick(d) ==
  /\ ticks < MaxTicks
  /\ now' = now + d
  /\ ticks' = ticks + 1
  /\ UNCHANGED <<cache, cacheTimestamps, pc, call, log, result, response, keyVars, registry, wrapperVars>>

(* ------------------------------------------------------------- specification *)
Init ==
  /\ now = 1
  /\ ticks = 0
  /\ cache = [exchanges |-> NoPayload, markets |-> {}, tickers |-> {}, ohlcv |-> {}]
  /\ cacheTimestamps = [exchanges |-> 0, markets |-> {}, tickers |-> {}, ohlcv |-> {}]
  /\ pc = [r \in Requests |-> "idle"]
  /\ call = [r \in Requests |-> NoCall]
  /\ log = [r \in Requests |-> <<>>]
  /\ result = [r \in Requests |-> NoResult]
  /\ response = [r \in Requests |-> NoResponse]
  /\ keyIn = <<>>
  /\ keyOut = <<>>
  /\ registry = loadedRegistry
  /\ appResult = NoAppResult
  /\ handlerResult = NoAppResult

\* The candles requests for an exchange that has the operation; the others are
\* requests of SpecCandles.
ServedOhlcvRequests == {q \in OhlcvRequests : q[1] \in ccxtExchanges /\ hasFetchOHLCV(q[1])}

\* The routes of ccxt-api over CcxtAdapter and its cache.
Next ==
  \/ \E r \in Requests : getAllExchangeIds(r)
  \/ \E r \in Requests, e \in ExchangeIds : getExchangeInfo(r, e)
  \/ \E r \in Requests : \E o \in Outcomes(r) : getExchangeInfoLoaded(r, o)
  \/ \E r \in Requests, e \in ExchangeIds : getMarkets(r, e)
  \/ \E r \in Requests : \E o \in Outcomes(r) : getMarketsLoaded(r, o)
  \/ \E r \in Requests, e \in ExchangeIds, sy \in Symbols : getTicker(r, e, sy)
  \/ \E r \in Requests : \E o \in Outcomes(r) : getTickerFetched(r, o)
  \/ \E r \in Requests, q \in ServedOhlcvRequests, sy \in Symbols,
        lq \in LimitQueries, sq \in SinceQueries : getOHLCV(r, q[1], sy, q[2], lq, sq)
  \/ \E r \in Requests : \E o \in Outcomes(r) : getOHLCVLoaded(r, o)
  \/ \E r \in Requests : \E o \in Outcomes(r) : getOHLCVFetched(r, o)
  \/ \E d \in Deltas : Tick(d)

Spec == Init /\ [][Next]_vars

\* The three handlers that serve ticker requests, each a Netlify function of its
\* own: ccxt-api over CcxtAdapter, ccxt-simple, and the relay adapter's handler.
NextTicker ==
  \/ \E r \in Requests, e \in ExchangeIds, sy \in Symbols : getTicker(r, e, sy)
  \/ \E r \in Requests : \E o \in Outcomes(r) : getTickerFetched(r, o)
  \/ \E r \in Requests, e \in ExchangeIds, sy \in Symbols : simpleTicker(r, e, sy)
  \/ \E r \in Requests : \E o \in Outcomes(r) : simpleTickerFetched(r, o)
  \/ \E r \in Requests, e \in RelayExchangeIds, sy \in Symbols : relayTicker(r, e, sy)
  \/ \E r \in Requests : \E o \in Outcomes(r) : relayTickerFetched(r, o)
  \/ \E d \in Deltas : Tick(d)

SpecTicker == Init /\ [][NextTicker]_vars

\* The handlers whose operations can be unsupported by an exchange: the candles
\* routes of ccxt-api and of the Express API, and the relay adapter's ticker.
NextCandles ==
  \/ \E r \in Requests, q \in OhlcvRequests, sy \in Symbols,
        lq \in LimitQueries, sq \in SinceQueries : getOHLCV(r, q[1], sy, q[2], lq, sq)
  \/ \E r \in Requests : \E o \in Outcomes(r) : getOHLCVLoaded(r, o)
  \/ \E r \in Requests : \E o \in Outcomes(r) : getOHLCVFetched(r, o)
  \/ \E r \in Requests, q \in OhlcvRequests, sy \in Symbols : ccxtOhlcv(r, q[1], sy, q[2])
  \/ \E r \in Requests : \E o \in Outcomes(r) : ccxtOhlcvLoaded(r, o)
  \/ \E r \in Requests : \E o \in Outcomes(r) : ccxtOhlcvFetched(r, o)
  \/ \E r \in Requests, e \in RelayExchangeIds, sy \in Symbols : relayTicker(r, e, sy)
  \/ \E r \in Requests : \E o \in Outcomes(r) : relayTickerFetched(r, o)
  \/ \E d \in OhlcvDeltas : Tick(d)

SpecCandles == Init /\ [][NextCandles]_vars

\* The relay adapter's handler on its own, from the event to the response.
NextRelay ==
  \/ \E r \in Requests, p \in EventPaths : relayHandler(r, p)
  \/ \E r \in Requests : \E o \in Outcomes(r) : relayTickerFetched(r, o)

SpecRelay == Init /\ [][NextRelay]_vars

\* A value of the query string or of the JSON body: absent, or given.
QueryValues == {Undefined, Str("0x1")}

\* The routes of the full API handler that check their parameters.
NextApi ==
  \/ \E r \in Requests, b \in [RpcNames -> QueryValues] : ankrRpc(r, b)
  \/ \E r \in Requests, q \in [QuoteNames -> QueryValues] : oneInchQuote(r, q)
  \/ \E r \in Requests, q \in [SwapNames -> QueryValues] : oneInchSwap(r, q)
  \/ \E r \in Requests, b \in [BroadcastNames -> QueryValues] : broadcastTransaction(r, b)
  \/ \E r \in Requests : \E o \in Outcomes(r) : \E e \in AdapterErrors(o.v) :
       validatedRouteDone(r, o, e)

SpecApi == Init /\ [][NextApi]_vars

\* The candles operation of the adapter and the relay adapter's ticker, with every
\* outbound call that is awaited ending at some time, in an answer or in an error
\* (a timeout is an error).
NextAwaited ==
  \/ \E r \in Requests, q \in OhlcvRequests, sy \in Symbols,
        lq \in LimitQueries, sq \in SinceQueries : getOHLCV(r, q[1], sy, q[2], lq, sq)
  \/ \E r \in Requests : \E o \in Outcomes(r) : getOHLCVLoaded(r, o)
  \/ \E r \in Requests : \E o \in Outcomes(r) : getOHLCVFetched(r, o)
  \/ \E r \in Requests, e \in ExchangeIds, sy \in Symbols : relayTicker(r, e, sy)
  \/ \E r \in Requests : \E o \in Outcomes(r) : relayTickerFetched(r, o)
  \/ \E d \in OhlcvDeltas : Tick(d)

\* The call request r awaits ends: at most one of the three is enabled for r.
CallEnds(r) ==
  \E o \in Outcomes(r) :
    getOHLCVLoaded(r, o) \/ getOHLCVFetched(r, o) \/ relayTickerFetched(r, o)

CallsEnd == \A r \in Requests : WF_vars(CallEnds(r))

SpecAwaited == Init /\ [][NextAwaited]_vars /\ CallsEnd

\* The routes of ccxt-api with the clock of the process starting at the epoch or
\* one millisecond after it: Date.now() is 0 at the epoch.
StartTimes == {0, 1}

InitEpoch ==
  /\ now \in StartTimes
  /\ ticks = 0
  /\ cache = [exchanges |-> NoPayload, markets |-> {}, tickers |-> {}, ohlcv |-> {}]
  /\ cacheTimestamps = [exchanges |-> 0, markets |-> {}, tickers |-> {}, ohlcv |-> {}]
  /\ pc = [r \in Requests |-> "idle"]
  /\ call = [r \in Requests |-> NoCall]
  /\ log = [r \in Requests |-> <<>>]
  /\ result = [r \in Requests |-> NoResult]
  /\ response = [r \in Requests |-> NoResponse]
  /\ keyIn = <<>>
  /\ keyOut = <<>>
  /\ registry = loadedRegistry
  /\ appResult = NoAppResult
  /\ handlerResult = NoAppResult

\* The routes of ccxt-api that store under each of the four types, for the
\* exchange ccxt lists.
ListedExchangeIds == ExchangeIds \cap ccxtExchanges

NextEpoch ==
  \/ \E r \in Requests : getAllExchangeIds(r)
  \/ \E r \in Requests, e \in ListedExchangeIds : getExchangeInfo(r, e)
  \/ \E r \in Requests : \E o \in Outcomes(r) : getExchangeInfoLoaded(r, o)
  \/ \E r \in Requests, e \in ListedExchangeIds, sy \in Symbols : getTicker(r, e, sy)
  \/ \E r \in Requests : \E o \in Outcomes(r) : getTickerFetched(r, o)
  \/ \E r \in Requests, sy \in Symbols, lq \in LimitQueries, sq \in SinceQueries :
       getOHLCV(r, "gateio", sy, "1h", lq, sq)
  \/ \E r \in Requests : \E o \in Outcomes(r) : getOHLCVLoaded(r, o)
  \/ \E r \in Requests : \E o \in Outcomes(r) : getOHLCVFetched(r, o)
  \/ \E d \in Deltas : Tick(d)

SpecEpoch == InitEpoch /\ [][NextEpoch]_vars

(* ------------------------------------------------- generateCacheKey on its own *)
\* The inputs of SpecKey: a cache type and a parameter object of up to MaxParams
\* properties with distinct names, the values of every kind JSON.stringify treats
\* in its own way.
KeyTypes == {"tickers", "ohlcv"}
ParamNames == {"a", "b", "1"}
ParamValues == {Undefined, Null, NaN, Num("100")}
ParamObjects ==
  {obj \in UNION {[1..n -> [name : ParamNames, value : ParamValues]] : n \in 0..MaxParams} :
     \A i, j \in 1..Len(obj) : obj[i].name = obj[j].name => i = j}
KeyInputs == [type : KeyTypes, params : ParamObjects]

InitKey ==
  /\ now = 1
  /\ ticks = 0
  /\ cache = [exchanges |-> NoPayload, markets |-> {}, tickers |-> {}, ohlcv |-> {}]
  /\ cacheTimestamps = [exchanges |-> 0, markets |-> {}, tickers |-> {}, ohlcv |-> {}]
  /\ pc = [r \in Requests |-> "idle"]
  /\ call = [r \in Requests |-> NoCall]
  /\ log = [r \in Requests |-> <<>>]
  /\ result = [r \in Requests |-> NoResult]
  /\ response = [r \in Requests |-> NoResponse]
  /\ keyIn \in KeyInputs \X KeyInputs
  /\ keyOut = <<>>
  /\ registry = loadedRegistry
  /\ appResult = NoAppResult
  /\ handlerResult = NoAppResult

\* generateCacheKey applied to both inputs.
ApplyKey ==
  /\ keyOut = <<>>
  /\ keyOut' = <<generateCacheKey(keyIn[1].type, keyIn[1].params),
                 generateCacheKey(keyIn[2].type, keyIn[2].params)>>
  /\ UNCHANGED <<coreVars, keyIn, registry, wrapperVars>>

NextKey == ApplyKey

SpecKey == InitKey /\ [][NextKey]_vars

\* The exported handler of ccxt-api.js and of api.js on its own, for results of
\* the app with status codes on both sides of 200 and of 400 and with the
\* Cache-Control header absent, set, and set to the empty string.
StatusCodes == {199, 200, 201, 304, 399, 400, 404, 500, 503}

ContentType == {<<"content-type", Str("application/json; charset=utf-8")>>}

AppHeaders ==
  {ContentType, ContentType \cup {<<"Cache-Control", Str("no-store")>>},
   ContentType \cup {<<"Cache-Control", Str("public, max-age=60")>>},
   ContentType \cup {<<"Cache-Control", Str("")>>}}

AppBodies == {"", "{\"success\":true}"}

InitWrapper ==
  /\ now = 1
  /\ ticks = 0
  /\ cache = [exchanges |-> NoPayload, markets |-> {}, tickers |-> {}, ohlcv |-> {}]
  /\ cacheTimestamps = [exchanges |-> 0, markets |-> {}, tickers |-> {}, ohlcv |-> {}]
  /\ pc = [r \in Requests |-> "idle"]
  /\ call = [r \in Requests |-> NoCall]
  /\ log = [r \in Requests |-> <<>>]
  /\ result = [r \in Requests |-> NoResult]
  /\ response = [r \in Requests |-> NoResponse]
  /\ keyIn = <<>>
  /\ keyOut = <<>>
  /\ registry = loadedRegistry
  /\ appResult \in {AppResult(sc, h, b) : sc \in StatusCodes, h \in AppHeaders, b \in AppBodies}
  /\ handlerResult = NoAppResult

NextWrapper == handlerReturns

SpecWrapper == InitWrapper /\ [][NextWrapper]_vars

(* ============================================================== the claims *)
Has(seq, ev) == \E i \in 1..Len(seq) : seq[i].ev = ev
Count(seq, ev) == Cardinality({i \in 1..Len(seq) : seq[i].ev = ev})
\* The outbound direct calls of a log, in order.
DirectCalls(seq) ==
  LET issued == SelectSeq(seq, LAMBDA e : e.ev = "direct")
  IN  [i \in 1..Len(issued) |-> issued[i].what]
Contains(str, part) ==
  \E i \in 1..(Len(str) - Len(part) + 1) : SubSeq(str, i, i + Len(part) - 1) = part

\* The cache type of a CcxtAdapter operation.
TypeOf(op) ==
  CASE op = "getAllExchangeIds" -> "exchanges"
    [] op \in {"getExchangeInfo", "getMarkets"} -> "markets"
    [] op = "getTicker" -> "tickers"
    [] op = "getOHLCV" -> "ohlcv"

HasTimestamp(type, key) ==
  IF type = "exchanges" THEN cacheTimestamps.exchanges # 0
  ELSE MapHas(cacheTimestamps[type], key)
StoredAt(type, key) ==
  IF type = "exchanges" THEN cacheTimestamps.exchanges ELSE MapGet(cacheTimestamps[type], key)
StoredPayload(type, key) ==
  IF type = "exchanges" THEN cache.exchanges ELSE MapGet(cache[type], key)
Fresh(type, key) ==
  HasTimestamp(type, key) /\ now - StoredAt(type, key) < CACHE_TTL[type]

IsAdapterCall(c) == c.handler = "ccxt-api"
ServedFromCache(r) == pc[r] = "done" /\ Has(log[r], "cache.get")
Failed(r) == result[r].kind = "error" \/ response[r].statusCode >= 400

(* C1: a CcxtAdapter operation returns a cached payload only if, when it reads,  *)
(* the key has a stored timestamp and now - storedAt < TTL of its type.          *)
C1_HitOnlyWhenFresh ==
  [][\A r \in Requests :
       (pc[r] = "idle" /\ pc'[r] = "done" /\ Has(log'[r], "cache.get"))
         => Fresh(TypeOf(call'[r].op), log'[r][1].what)]_vars

\* A request was served an entry one millisecond short of its TTL.
C1_Witness ==
  \E r \in Requests :
    /\ ServedFromCache(r)
    /\ LET type == TypeOf(call[r].op)
           key == log[r][1].what
       IN  HasTimestamp(type, key) /\ now - StoredAt(type, key) = CACHE_TTL[type] - 1

(* C2: a request that starts while the entry of its fingerprint is stored and    *)
(* younger than the TTL returns exactly the stored payload, in that step, and    *)
(* makes no outbound call.                                                       *)
C2_FreshEntryIsServed ==
  [][\A r \in Requests :
       (pc[r] = "idle" /\ pc'[r] # "idle" /\ IsAdapterCall(call'[r])
          /\ Fresh(TypeOf(call'[r].op), log'[r][1].what))
         => /\ pc'[r] = "done"
            /\ result'[r] = Returned(StoredPayload(TypeOf(call'[r].op), log'[r][1].what))
            /\ response'[r].statusCode = 200
            /\ response'[r].payload = StoredPayload(TypeOf(call'[r].op), log'[r][1].what)
            /\ ~Has(log'[r], "direct") /\ ~Has(log'[r], "relay")
            /\ UNCHANGED <<cache, cacheTimestamps>>]_vars

\* The second request got the gateio BTC/USDT ticker the first one had stored.
C2_Witness ==
  /\ ServedFromCache(2)
  /\ call[2].op = "getTicker" /\ call[2].exchangeId = "gateio" /\ call[2].symbol = "BTC/USDT"
  /\ result[2].payload = Payload("ticker", "gateio BTC/USDT", "answer 1")
  /\ DirectCalls(log[2]) = <<>>

ExpiredMiss(r) ==
  /\ pc[r] = "done"
  /\ IsAdapterCall(call[r])
  /\ call[r].op \in {"getExchangeInfo", "getMarkets", "getTicker", "getOHLCV"}
  /\ log[r][1].note = "expired"

(* C3 as claimed: a request that finds its entry older than the TTL makes        *)
(* exactly one upstream call before it returns.                                  *)
C3_ExactlyOneCall ==
  \A r \in Requests : ExpiredMiss(r) => Len(DirectCalls(log[r])) = 1

(* C3 as amended: such a request is not served from the cache; for exchange      *)
(* info, markets and ticker it makes exactly one upstream call; for candles it   *)
(* calls loadMarkets and, once that succeeded, fetchOHLCV: two calls when it     *)
(* returns a payload, one when loadMarkets fails.                                *)
C3_CallsAfterExpiry ==
  \A r \in Requests :
    ExpiredMiss(r) =>
      /\ ~Has(log[r], "cache.get")
      /\ IF call[r].op = "getOHLCV"
         THEN /\ DirectCalls(log[r]) \in {<<"loadMarkets">>, <<"loadMarkets", "fetchOHLCV">>}
              /\ result[r].kind = "payload" => DirectCalls(log[r]) = <<"loadMarkets", "fetchOHLCV">>
              /\ Len(DirectCalls(log[r])) = 1 => log[r][Len(log[r])] = Ev("direct.failed", "loadMarkets")
         ELSE /\ call[r].op = "getTicker" => DirectCalls(log[r]) = <<"fetchTicker">>
              /\ call[r].op # "getTicker" => DirectCalls(log[r]) = <<"loadMarkets">>

\* A candles request found its entry expired and returned after two calls.
C3_Witness ==
  \E r \in Requests :
    /\ ExpiredMiss(r)
    /\ call[r].op = "getOHLCV"
    /\ result[r].kind = "payload"
    /\ Len(DirectCalls(log[r])) = 2

(* C4 as claimed: two parameter objects with the same (name, value) pairs, in    *)
(* whatever order they were inserted, give the same cache key for a type.        *)
SameProps(a, b) ==
  {<<a[i].name, a[i].value>> : i \in 1..Len(a)} = {<<b[i].name, b[i].value>> : i \in 1..Len(b)}
C4_OrderIndependent ==
  (keyOut # <<>> /\ keyIn[1].type = keyIn[2].type /\ SameProps(keyIn[1].params, keyIn[2].params))
    => keyOut[1] = keyOut[2]

(* C5 as claimed: two calls that differ in the type, in a parameter name or in a *)
(* parameter value (undefined, null and NaN included) give different cache keys. *)
C5_Sensitive ==
  (keyOut # <<>> /\ (keyIn[1].type # keyIn[2].type
                     \/ ~SameProps(keyIn[1].params, keyIn[2].params)))
    => keyOut[1] # keyOut[2]

UnknownToAdapter(r) ==
  /\ pc[r] = "done"
  /\ IsAdapterCall(call[r])
  /\ call[r].op \in {"getExchangeInfo", "getMarkets", "getTicker", "getOHLCV"}
  /\ call[r].exchangeId \notin ccxtExchanges

UnknownTicker(r) ==
  /\ pc[r] = "done"
  /\ \/ call[r].handler = "ccxt-api" /\ call[r].op = "getTicker"
        /\ call[r].exchangeId \notin ccxtExchanges
     \/ call[r].handler = "ccxt-simple" /\ call[r].exchangeId \notin ccxtExchanges
     \/ call[r].handler = "relay" /\ toLowerCase(call[r].exchangeId) \notin SUPPORTED_EXCHANGES
C8_UnknownExchange404 ==
  \A r \in Requests :
    UnknownTicker(r) =>
      /\ response[r].statusCode = 404
      /\ Contains(response[r].message, call[r].exchangeId)

(* C9 as claimed: a request whose direct upstream fetch failed goes on to one    *)
(* relayed fetch of the same request, the direct attempt first and the relayed   *)
(* attempt after it.                                                             *)
C9_RelayFollowsDirectFailure ==
  \A r \in Requests :
    (pc[r] = "done" /\ Has(log[r], "direct.failed")) =>
      \E i, j \in 1..Len(log[r]) :
        i < j /\ log[r][i].ev = "direct.failed" /\ log[r][j].ev = "relay"

IsRelayError(res) ==
  res.kind = "error" /\ \E e \in UpstreamErrors : res.message = "relay request failed: " \o e

IsOutbound(e) == e.ev \in {"direct", "relay"}
IsFailure(e) == e.ev \in {"direct.failed", "relay.failed"}

(* C11: no request issues the same direct call twice or more than one relayed     *)
(* call; after a failed direct call it makes no further direct call and at most   *)
(* one relayed call; after a failed relayed call it makes no outbound call.       *)
C11_NoReissue ==
  \A r \in Requests :
    LET l == log[r]
    IN  /\ \A i, j \in 1..Len(l) : (l[i].ev = "direct" /\ l[j].ev = "direct" /\ i # j)
                                     => l[i].what # l[j].what
        /\ Count(l, "relay") <= 1
        /\ \A i, j \in 1..Len(l) : (i < j /\ l[i].ev = "direct.failed") => l[j].ev # "direct"
        /\ \A i, j \in 1..Len(l) : (i < j /\ l[i].ev = "relay.failed") => ~IsOutbound(l[j])

\* One request ended on its failed relayed call, another went from loadMarkets to a
\* fetchOHLCV that failed, and neither called again.
C11_Witness ==
  /\ \E r \in Requests : pc[r] = "done" /\ log[r][Len(log[r])].ev = "relay.failed"
  /\ \E r \in Requests :
       /\ pc[r] = "done"
       /\ DirectCalls(log[r]) = <<"loadMarkets", "fetchOHLCV">>
       /\ log[r][Len(log[r])] = Ev("direct.failed", "fetchOHLCV")

IsCandles(c) == c.op \in {"getOHLCV", "ccxtOhlcv"}
\* A candles request for a listed exchange that has no fetchOHLCV.
NoCapability(r) ==
  /\ pc[r] = "done" /\ IsCandles(call[r])
  /\ call[r].exchangeId \in ccxtExchanges /\ ~hasFetchOHLCV(call[r].exchangeId)
\* A candles request for a listed exchange with fetchOHLCV but not the timeframe.
NoTimeframe(r) ==
  /\ pc[r] = "done" /\ IsCandles(call[r])
  /\ call[r].exchangeId \in ccxtExchanges /\ hasFetchOHLCV(call[r].exchangeId)
  /\ call[r].timeframe \notin timeframes(call[r].exchangeId)
\* A ticker request of the relay adapter for a listed exchange without a branch.
NoRelayTicker(r) ==
  /\ pc[r] = "done" /\ call[r].handler = "relay"
  /\ toLowerCase(call[r].exchangeId) \in SUPPORTED_EXCHANGES
  /\ tickerUrl(call[r].exchangeId, call[r].symbol).kind = "error"
NoOutbound(l) == \A i \in 1..Len(l) : ~IsOutbound(l[i])

(* C12 as claimed: a request for an operation the exchange does not support (no   *)
(* candles capability, no such timeframe, no relay ticker branch) fails having    *)
(* made no outbound call.                                                         *)
C12_RejectedLocally ==
  \A r \in Requests :
    (NoCapability(r) \/ NoTimeframe(r) \/ NoRelayTicker(r)) => (Failed(r) /\ NoOutbound(log[r]))

(* C12 as amended: a request for an exchange without the candles capability, or   *)
(* a relay ticker request for a listed exchange without a branch, fails having    *)
(* made no outbound call; a candles request for a timeframe the exchange does not *)
(* have fails after exactly one outbound call, loadMarkets, and never calls       *)
(* fetchOHLCV: with the timeframe error when loadMarkets succeeded, with the      *)
(* error of loadMarkets otherwise.                                                *)
C12_RejectedBeforeFetch ==
  \A r \in Requests :
    /\ (NoCapability(r) \/ NoRelayTicker(r)) => (Failed(r) /\ NoOutbound(log[r]))
    /\ NoTimeframe(r) =>
         /\ Failed(r)
         /\ DirectCalls(log[r]) = <<"loadMarkets">>
         /\ Count(log[r], "relay") = 0
         /\ Has(log[r], "direct.ok") =>
              /\ call[r].op = "getOHLCV" =>
                   result[r] = Thrown("exchange " \o call[r].exchangeId
                                      \o " does not support timeframe " \o call[r].timeframe)
              /\ call[r].op = "ccxtOhlcv" =>
                   response[r].message = "exchange " \o call[r].exchangeId
                                         \o " does not support timeframe " \o call[r].timeframe
         /\ Has(log[r], "direct.failed") =>
              (result[r].kind = "error" /\ result[r].message \in UpstreamErrors)

\* A candles request of the adapter was rejected for its timeframe once loadMarkets
\* had succeeded, and a relay ticker request was rejected for want of a branch.
C12_Witness ==
  /\ \E r \in Requests :
       NoTimeframe(r) /\ call[r].op = "getOHLCV"
         /\ log[r][Len(log[r])] = Ev("direct.ok", "loadMarkets")
  /\ \E r \in Requests : NoRelayTicker(r)

(* C13 as claimed: in every handler that serves candles, a request rejected for   *)
(* want of the candles capability or of the timeframe is answered with status     *)
(* 400 or 404.                                                                    *)
C13_Unsupported4xx ==
  \A r \in Requests :
    (NoCapability(r) \/ (NoTimeframe(r) /\ Has(log[r], "direct.ok")))
      => response[r].statusCode \in {400, 404}

(* C14 as claimed: every error response has a body with an error object that      *)
(* holds a status equal to the response's status code and a message; a request    *)
(* whose outbound call failed is answered with status 500.                        *)
C14_StructuredErrors ==
  \A r \in Requests :
    /\ (pc[r] = "done" /\ response[r].statusCode >= 400) =>
         /\ response[r].shape = "errorObject"
         /\ response[r].status = response[r].statusCode
         /\ response[r].message # ""
    /\ (pc[r] = "done" /\ IsFailure(log[r][Len(log[r])])) => response[r].statusCode = 500

\* The parameters the claim names as required, per operation of the full API.
RequiredOf(op) ==
  CASE op = "sendRpcRequest" -> {"method"}
    [] op = "getQuote" -> {"fromTokenAddress", "toTokenAddress", "amount"}
    [] op = "getSwap" -> {"fromTokenAddress", "toTokenAddress", "amount", "fromAddress"}
    [] op = "broadcastTransaction" -> {"chain", "signedTx"}
Lacks(c, n) == \E g \in c.given : g[1] = n /\ g[2].t = "undefined"
LacksRequired(r) ==
  /\ pc[r] # "idle" /\ call[r].handler = "api"
  /\ \E n \in RequiredOf(call[r].op) : Lacks(call[r], n)

IsStore(e, key) == e.ev = "cache.set" /\ e.what = key
\* Request r of the adapter missed the cache under its key and got its answer from
\* the upstream.
FetchedOnMiss(r) ==
  /\ pc[r] = "done" /\ IsAdapterCall(call[r]) /\ call[r].op # "getAllExchangeIds"
  /\ log[r][1].ev = "cache.read" /\ log[r][1].note # "valid"
  /\ result[r].kind = "payload"
\* Two requests for one key that both read the cache before either had stored.
ConcurrentMisses(r1, r2) ==
  /\ r1 # r2
  /\ FetchedOnMiss(r1) /\ FetchedOnMiss(r2)
  /\ call[r1].op = call[r2].op
  /\ log[r1][1].what = log[r2][1].what
  /\ log[r1][1].note = "absent" /\ log[r2][1].note = "absent"

(* C16: requests are not coalesced: of two requests with the same fingerprint     *)
(* that both found no entry, each makes its own upstream calls and each runs      *)
(* setCache under that fingerprint, with the payload it fetched itself.           *)
C16_NoSingleFlight ==
  \A r1, r2 \in Requests :
    ConcurrentMisses(r1, r2) =>
      /\ DirectCalls(log[r1]) # <<>> /\ DirectCalls(log[r1]) = DirectCalls(log[r2])
      /\ IsStore(log[r1][Len(log[r1])], log[r1][1].what)
      /\ IsStore(log[r2][Len(log[r2])], log[r2][1].what)
      /\ result[r1].payload # result[r2].payload
      /\ StoredPayload(TypeOf(call[r1].op), log[r1][1].what)
           \in {result[r].payload : r \in {q \in Requests : FetchedOnMiss(q)}}

\* Two ticker requests for gateio BTC/USDT both missed, both called fetchTicker and
\* both stored.
C16_Witness ==
  \E r1, r2 \in Requests :
    /\ ConcurrentMisses(r1, r2)
    /\ call[r1].op = "getTicker" /\ call[r1].exchangeId = "gateio"
    /\ Count(log[r1], "cache.set") = 1 /\ Count(log[r2], "cache.set") = 1
    /\ Count(log[r1], "direct") = 1 /\ Count(log[r2], "direct") = 1

\* The keys under which a map holds something.
Keys(map) == {e[1] : e \in map}
\* The step is the successful end of a request that stores under (type, key).
StoresIn(r, type, key) ==
  /\ pc[r] # "done" /\ pc'[r] = "done"
  /\ IsAdapterCall(call'[r]) /\ TypeOf(call'[r].op) = type
  /\ result'[r].kind = "payload"
  /\ IsStore(log'[r][Len(log'[r])], key)

(* C17: no step removes an entry: a step leaves the cache as it is, or it is not  *)
(* a step of the clock and a key that has a payload and a timestamp has both      *)
(* after it. An entry changes only in the step in which a request for its key     *)
(* ends with a fetched payload, and then to that payload and to the time of that  *)
(* step.                                                                          *)
C17_EntriesStay ==
  [][\/ UNCHANGED <<cache, cacheTimestamps>>
     \/ /\ \A type \in KeyedTypes :
             /\ Keys(cache[type]) \subseteq Keys(cache'[type])
             /\ Keys(cacheTimestamps[type]) \subseteq Keys(cacheTimestamps'[type])
             /\ Keys(cache'[type]) = Keys(cacheTimestamps'[type])
             /\ \A key \in Keys(cache'[type]) :
                  (\/ ~MapHas(cache[type], key)
                   \/ MapGet(cache'[type], key) # MapGet(cache[type], key)
                   \/ MapGet(cacheTimestamps'[type], key) # MapGet(cacheTimestamps[type], key))
                    => \E r \in Requests :
                         /\ StoresIn(r, type, key)
                         /\ MapGet(cache'[type], key) = result'[r].payload
                         /\ MapGet(cacheTimestamps'[type], key) = now
        /\ cacheTimestamps.exchanges # 0 =>
             (cacheTimestamps'.exchanges # 0 /\ cache'.exchanges # NoPayload)
        /\ (cache'.exchanges # cache.exchanges
              \/ cacheTimestamps'.exchanges # cacheTimestamps.exchanges)
             => \E r \in Requests :
                  /\ StoresIn(r, "exchanges", "exchanges")
                  /\ cache'.exchanges = result'[r].payload
                  /\ cacheTimestamps'.exchanges = now
        /\ now' = now]_vars

\* A request found its entry expired and failed: the expired entry is still there,
\* under its key.
C17_Witness ==
  \E r \in Requests :
    /\ pc[r] = "done" /\ IsAdapterCall(call[r]) /\ call[r].op # "getAllExchangeIds"
    /\ log[r][1].note = "expired" /\ result[r].kind = "error"
    /\ MapHas(cache[TypeOf(call[r].op)], log[r][1].what)
    /\ ~Fresh(TypeOf(call[r].op), log[r][1].what)

\* Request r, still waiting in this state, ends in this step.
Ends(r) == pc[r] \notin {"idle", "done"} /\ pc'[r] = "done" /\ IsAdapterCall(call'[r])
\* Request r starts in this step, as a request of the adapter under (type, key).
StartsFor(r, type, key) ==
  /\ pc[r] = "idle" /\ pc'[r] # "idle"
  /\ IsAdapterCall(call'[r]) /\ call'[r].op # "getAllExchangeIds"
  /\ TypeOf(call'[r].op) = type /\ log'[r][1].what = key

(* C18: a request that missed and whose fetch succeeded has stored its payload,   *)
(* at the time of that step, when it returns, the setCache being the last thing   *)
(* it does after the successful call; a request that starts after such a request  *)
(* has returned, with the same fingerprint and less than the TTL after that       *)
(* store, is served from the cache with no outbound call. A request whose fetch   *)
(* failed returns the error and has stored nothing.                               *)
C18_StoreBeforeReturn ==
  [][\A r \in Requests :
       /\ (Ends(r) /\ result'[r].kind = "payload") =>
            LET l == log'[r]
                type == TypeOf(call'[r].op)
            IN  /\ l[Len(l)] = [ev |-> "cache.set", what |-> l[1].what, note |-> "", at |-> now]
                /\ l[Len(l) - 1].ev = "direct.ok"
                /\ Count(l, "cache.set") = 1
                /\ MapGet(cache'[type], l[1].what) = result'[r].payload
                /\ MapGet(cacheTimestamps'[type], l[1].what) = now
                /\ response'[r] = JsonResponse(200, result'[r].payload)
       /\ (Ends(r) /\ result'[r].kind = "error") =>
            /\ ~Has(log'[r], "cache.set")
            /\ UNCHANGED <<cache, cacheTimestamps>>
            /\ response'[r].statusCode >= 400
       /\ (pc[r] = "idle" /\ pc'[r] # "idle") =>
            \A q \in Requests :
              (/\ FetchedOnMiss(q)
               /\ StartsFor(r, TypeOf(call[q].op), log[q][1].what)
               /\ now - log[q][Len(log[q])].at < CACHE_TTL[TypeOf(call[q].op)])
                => /\ pc'[r] = "done"
                   /\ log'[r][1].note = "valid"
                   /\ Has(log'[r], "cache.get")
                   /\ DirectCalls(log'[r]) = <<>>
                   /\ result'[r].kind = "payload"]_vars

\* A ticker request missed, fetched and stored; one millisecond before the TTL was
\* over a second request for the same ticker was served from the cache.
C18_Witness ==
  \E q, r \in Requests :
    /\ FetchedOnMiss(q) /\ call[q].op = "getTicker"
    /\ pc[r] = "done" /\ call[r] = call[q]
    /\ log[r][1].note = "valid" /\ Has(log[r], "cache.get")
    /\ now - log[q][Len(log[q])].at = CACHE_TTL.tickers - 1

(* C19: with every awaited outbound call ending at some time, every request that  *)
(* has started reaches its terminal state, in which it has returned a payload or  *)
(* an error.                                                                      *)
C19_EveryRequestEnds ==
  \A r \in Requests :
    (pc[r] # "idle") ~> (pc[r] = "done" /\ (result[r].kind \in {"payload", "error"}))

\* The first request ended in the error of its outbound call and the second, which
\* started while the first was waiting, was served all the same.
C19_Witness ==
  /\ pc[1] = "done" /\ result[1].kind = "error" /\ IsFailure(log[1][Len(log[1])])
  /\ pc[2] = "done" /\ result[2].kind = "payload"

\* The property names of a ticker payload, and its exchange property ("" when it
\* has none that the code sets).
KeysOf(p) == IF "keys" \in DOMAIN p THEN p.keys ELSE ccxtTickerKeys
ExchangeOf(p) == IF "exchange" \in DOMAIN p THEN p.exchange ELSE ""
ServedTicker(r) ==
  /\ pc[r] = "done" /\ result[r].kind = "payload"
  /\ call[r].op \in {"ticker", "getTicker"}
SameTicker(r1, r2) ==
  /\ toLowerCase(call[r1].exchangeId) = toLowerCase(call[r2].exchangeId)
  /\ call[r1].symbol = call[r2].symbol

(* C20 as claimed: a ticker served through the relay and a ticker served by a     *)
(* direct call, for the same exchange and symbol, have the same property names    *)
(* and the same exchange value, whatever the upstream data.                       *)
C20_SamePayload ==
  \A r1, r2 \in Requests :
    ( /\ ServedTicker(r1) /\ call[r1].handler = "relay"
      /\ ServedTicker(r2) /\ call[r2].handler # "relay"
      /\ SameTicker(r1, r2) )
    => /\ KeysOf(result[r1].payload) = KeysOf(result[r2].payload)
       /\ ExchangeOf(result[r1].payload) = ExchangeOf(result[r2].payload)

\* A payload is stored under (type, key): setCache has been called for it.
HasPayload(type, key) ==
  IF type = "exchanges" THEN cache.exchanges # NoPayload ELSE MapHas(cache[type], key)

\* The request starts in this step by reading the entry under (type, key), which
\* has a payload stored at a time of at least `from`; it is served from the cache
\* exactly when it reads before the stored time plus the TTL of the type.
HitWindowFrom(from) ==
  /\ CACHE_TTL = [exchanges |-> 3600000, markets |-> 300000, tickers |-> 10000,
                  ohlcv |-> 60000]
  /\ \A r \in Requests :
       (pc[r] = "idle" /\ pc'[r] # "idle" /\ IsAdapterCall(call'[r])) =>
         LET type == TypeOf(call'[r].op)
             key == log'[r][1].what
         IN  (HasPayload(type, key) /\ StoredAt(type, key) >= from) =>
               (Has(log'[r], "cache.get") <=> now - StoredAt(type, key) < CACHE_TTL[type])

StoresAfterMiss(r) ==
  /\ pc[r] # "done" /\ pc'[r] = "done"
  /\ IsAdapterCall(call'[r])
  /\ result'[r].kind = "payload"
  /\ log'[r][1].ev = "cache.read" /\ log'[r][1].note # "valid"
  /\ ~Has(log'[r], "cache.get")
  /\ Has(log'[r], "direct.ok") \/ call'[r].op = "getAllExchangeIds"
  /\ log'[r][Len(log'[r])].ev = "cache.set"

(* C22: the cache and its timestamps change only in the step in which a request   *)
(* of the adapter that missed ends with the payload it got; a step in which a     *)
(* request is served from the cache, a step in which a request fails, and every   *)
(* step of the handlers of ccxt-simple and of the relay adapter leave both as     *)
(* they are.                                                                      *)
C22_OnlyStoresWrite ==
  [][/\ (cache' # cache \/ cacheTimestamps' # cacheTimestamps) =>
          \E r \in Requests : StoresAfterMiss(r)
     /\ \A r \in Requests :
          (/\ pc'[r] # pc[r]
           /\ \/ Has(log'[r], "cache.get")
              \/ result'[r].kind = "error"
              \/ call'[r].handler # "ccxt-api")
            => UNCHANGED <<cache, cacheTimestamps>>]_vars

\* The second ticker request was served, some time after the store, the entry the
\* first had stored, and the timestamp is still that of the store.
C22_Witness ==
  /\ FetchedOnMiss(1) /\ call[1].op = "getTicker"
  /\ ServedFromCache(2) /\ call[2] = call[1]
  /\ StoredAt("tickers", log[1][1].what) = log[1][Len(log[1])].at
  /\ now > StoredAt("tickers", log[1][1].what)

\* How the relay adapter resolved the identifier of request r: not in the list, in
\* the list without a ticker URL, or the URL it asked the relay for.
Resolution(r) ==
  IF Has(log[r], "relay")
  THEN (SelectSeq(log[r], LAMBDA e : e.ev = "relay"))[1].what
  ELSE result[r].message
RelayRequest(r) == pc[r] # "idle" /\ call[r].handler = "relay"

(* C23: no step changes the list of supported exchanges or the table of base      *)
(* URLs, which stay as the module loaded them, and two requests to the relay      *)
(* adapter for the same identifier and symbol are resolved alike, whatever        *)
(* happened to other requests in between.                                         *)
C23_RegistryFixed ==
  /\ registry = loadedRegistry
  /\ \A r1, r2 \in Requests :
       (/\ RelayRequest(r1) /\ RelayRequest(r2)
        /\ call[r1].exchangeId = call[r2].exchangeId /\ call[r1].symbol = call[r2].symbol)
         => Resolution(r1) = Resolution(r2)
  /\ \A r \in Requests :
       RelayRequest(r) =>
         (Has(log[r], "relay") <=>
            /\ toLowerCase(call[r].exchangeId) \in SUPPORTED_EXCHANGES
            /\ toLowerCase(call[r].exchangeId) \in {"binance", "gateio", "kucoin"})

\* A request for an identifier that is not in the list failed, and so did a second
\* one for the same identifier, with the same error; the list is as it was.
C23_Witness ==
  /\ RelayRequest(1) /\ RelayRequest(2)
  /\ call[1].exchangeId = "not-a-real-exchange" /\ call[2].exchangeId = "not-a-real-exchange"
  /\ pc[1] = "done" /\ pc[2] = "done"
  /\ result[1].kind = "error" /\ result[2] = result[1]
  /\ registry.SUPPORTED_EXCHANGES = SUPPORTED_EXCHANGES

\* Request r went through the relay adapter's handler and the handler has ended.
Handled(r) == pc[r] = "done" /\ call[r].handler = "relay"

(* C24: the relay adapter's handler ends every request with a response: 200 for   *)
(* the path '' or '/', for '/exchanges' and for a ticker request that got its     *)
(* payload, 404 for a path that no route matches, and 500 when the ticker         *)
(* operation threw.                                                               *)
C24_AlwaysAResponse ==
  \A r \in Requests :
    Handled(r) =>
      LET path == call[r].path
          code == response[r].statusCode
      IN  /\ response[r] # NoResponse
          /\ code \in {200, 404, 500}
          /\ path \in {"", "/", "/exchanges"} => code = 200
          /\ (tickerMatch(path) # <<>> /\ result[r].kind = "payload") => code = 200
          /\ (path \notin {"", "/", "/exchanges"} /\ tickerMatch(path) = <<>>) => code = 404
          /\ result[r].kind = "error" => code = 500
          /\ code = 200 => response[r].payload = result[r].payload

\* One request had a path without a route and got 404; the other asked for a
\* ticker, the relay failed, and it got 500.
C24_Witness ==
  \E r1, r2 \in Requests :
    /\ Handled(r1) /\ call[r1].path = "/invalid/route" /\ response[r1].statusCode = 404
    /\ Handled(r2) /\ Has(log[r2], "relay.failed") /\ response[r2].statusCode = 500
\* The exported handler has returned.
HandlerReturned == handlerResult # NoAppResult

\* The returned result has the header added to those of the app's result.
HeaderAdded ==
  /\ handlerResult.headers # appResult.headers
  /\ handlerResult.headers =
       MapPut(appResult.headers, "Cache-Control", Str("public, max-age=60"))

\* The rest of the claim: without the addition the headers are those of the
\* app's result, as they are for a status of 400 or more, and the status code and
\* the body are never changed.
WrapperFrame ==
  /\ ~HeaderAdded => handlerResult.headers = appResult.headers
  /\ appResult.statusCode >= 400 => handlerResult.headers = appResult.headers
  /\ handlerResult.statusCode = appResult.statusCode
  /\ handlerResult.body = appResult.body

FetchesWith(q, r) ==
  /\ q # r
  /\ IsAdapterCall(call[q]) /\ IsAdapterCall(call[r])
  /\ call[q].op = call[r].op /\ call[q].op # "getAllExchangeIds"
  /\ log[q] # <<>> /\ log[r] # <<>>
  /\ log[q][1].ev = "cache.read" /\ log[r][1].ev = "cache.read"
  /\ log[q][1].what = log[r][1].what
  /\ log[q][1].note = "absent" /\ log[r][1].note = "absent"
  /\ pc[q] # "done" \/ FetchedOnMiss(q)

(* C26: of two requests with the same fingerprint that both missed and fetch      *)
(* concurrently, each stores its own payload, not that of the other, with the     *)
(* time at which its own fetch ended; the one whose fetch ends when the other has *)
(* already stored replaces that entry, so the entry left is that of the request   *)
(* whose fetch ended last, whether it started first or second.                    *)
C26_LastFetchWins ==
  [][\A r \in Requests :
       (Ends(r) /\ result'[r].kind = "payload") =>
         \A q \in Requests :
           FetchesWith(q, r)' =>
             LET type == TypeOf(call'[r].op)
                 key == log'[r][1].what
                 last == log'[r][Len(log'[r])]
             IN  /\ IsStore(last, key) /\ last.at = now
                 /\ MapGet(cache'[type], key) = result'[r].payload
                 /\ MapGet(cacheTimestamps'[type], key) = now
                 /\ FetchedOnMiss(q)' =>
                      /\ result'[q].payload # result'[r].payload
                      /\ log'[q][Len(log'[q])].at <= now
                      /\ MapHas(cache[type], key)
                      /\ MapGet(cache[type], key) # result'[r].payload]_vars

\* Two ticker requests missed together; the fetch of the second ended first, the
\* fetch of the first ended later, and the entry is that of the first.
C26_Witness ==
  \E r1, r2 \in Requests :
    /\ r1 < r2 /\ ConcurrentMisses(r1, r2) /\ call[r1].op = "getTicker"
    /\ log[r1][Len(log[r1])].at > log[r2][Len(log[r2])].at
    /\ StoredPayload("tickers", log[r1][1].what) = result[r1].payload
    /\ StoredAt("tickers", log[r1][1].what) = log[r1][Len(log[r1])].at


\* The cache as the adapter module creates it: nothing stored.
EmptyCache ==
  /\ cache = [exchanges |-> NoPayload, markets |-> {}, tickers |-> {}, ohlcv |-> {}]
  /\ cacheTimestamps = [exchanges |-> 0, markets |-> {}, tickers |-> {}, ohlcv |-> {}]

\* Request r is a call of the relay adapter's getTicker for an exchange that
\* getTicker has a case for.
RelayTickerCall(r) ==
  /\ pc[r] # "idle"
  /\ call[r].handler = "relay" /\ call[r].op = "ticker"
  /\ call[r].exchangeId \in TickerBranches
  /\ ~routed[call[r].path].malformed

\* The URL after the prefix of the relay, as the relay reads its parameter.
RelayedUrl(what) == decodeURIComponent(SubSeq(what, Len(RELAY_URL) + 1, Len(what)))

(* C27: a call of the relay adapter's getTicker for binance, gateio or kucoin      *)
(* issues one outbound request and no more: to the relay endpoint, followed by     *)
(* nothing but the encoded upstream URL, which is a URL of the requested           *)
(* exchange; it issues no direct request, and it neither reads nor writes the TTL  *)
(* cache, so a second call for the same ticker issues its own request.             *)
C27_RelayOnly ==
  \A r \in Requests :
    RelayTickerCall(r) =>
      LET l == log[r]
          sent == l[2].what
          param == SubSeq(sent, Len(RELAY_URL) + 1, Len(sent))
          base == API_BASE_URLS[call[r].exchangeId]
      IN  /\ Len(l) >= 2 /\ l[2].ev = "relay"
          /\ Count(l, "relay") = 1 /\ Count(l, "direct") = 0
          /\ SubSeq(sent, 1, Len(RELAY_URL)) = RELAY_URL
          /\ \A ch \in {"&", "?", "=", "/", ":", "#"} : ~Contains(param, ch)
          /\ SubSeq(RelayedUrl(sent), 1, Len(base)) = base
          /\ \A i \in 1..Len(l) :
               l[i].ev \notin {"cache.read", "cache.get", "cache.set"}
          /\ EmptyCache

\* Two calls for the same ticker of binance ended with an answer, each having
\* issued its own request to the relay.
C27_Witness ==
  \E r1, r2 \in Requests :
    /\ r1 # r2 /\ RelayTickerCall(r1) /\ RelayTickerCall(r2)
    /\ call[r1].exchangeId = "binance" /\ call[r1] = call[r2]
    /\ pc[r1] = "done" /\ pc[r2] = "done"
    /\ result[r1].kind = "payload" /\ result[r2].kind = "payload"
    /\ Count(log[r1], "relay") = 1 /\ Count(log[r2], "relay") = 1


\* The key of each of the two operations for an exchange, and the payload each
\* builds.
InfoKey(e) == keyOf("markets", <<Prop("exchangeId", Str(e))>>)
MarketsKey(e) == keyOf("markets", <<Prop("exchangeId", Str(e)), Prop("full", True)>>)
ShapeOf(op) == IF op = "getExchangeInfo" THEN "exchangeInfo" ELSE "markets"

\* Request r has ended an operation of the type markets with a payload.
ReturnedMarketsType(r) ==
  /\ pc[r] = "done" /\ IsAdapterCall(call[r])
  /\ call[r].op \in {"getExchangeInfo", "getMarkets"}
  /\ result[r].kind = "payload"

(* C28: getExchangeInfo and getMarkets store under the type markets with keys     *)
(* that differ for every pair of exchange ids, so in every reachable state an     *)
(* entry under the key of one operation is a payload that operation built, and    *)
(* what a request of either operation returns, fetched or from the cache, is a    *)
(* payload of its own operation for its own exchange; a payload from the cache    *)
(* is one an earlier request of the same operation stored.                        *)
C28_NoSharedEntry ==
  /\ \A e1, e2 \in ExchangeIds : InfoKey(e1) # MarketsKey(e2)
  /\ \A entry \in cache.markets :
       /\ (\E e \in ExchangeIds : entry[1] = InfoKey(e)) => entry[2].shape = "exchangeInfo"
       /\ (\E e \in ExchangeIds : entry[1] = MarketsKey(e)) => entry[2].shape = "markets"
  /\ \A r \in Requests :
       ReturnedMarketsType(r) =>
         /\ result[r].payload.shape = ShapeOf(call[r].op)
         /\ result[r].payload.of = call[r].exchangeId
         /\ log[r][1].what = IF call[r].op = "getExchangeInfo"
                             THEN InfoKey(call[r].exchangeId)
                             ELSE MarketsKey(call[r].exchangeId)
         /\ Has(log[r], "cache.get") =>
              \E q \in Requests \ {r} :
                /\ ReturnedMarketsType(q) /\ call[q] = call[r]
                /\ Has(log[q], "cache.set")
                /\ result[q].payload = result[r].payload

\* The exchange info and the markets of gateio are both stored, each by a request
\* of its own operation, the markets by a request that started after the other.
C28_Witness ==
  \E r1, r2 \in Requests :
    /\ r1 < r2 /\ ReturnedMarketsType(r1) /\ ReturnedMarketsType(r2)
    /\ call[r1].op = "getExchangeInfo" /\ call[r2].op = "getMarkets"
    /\ call[r1].exchangeId = "gateio" /\ call[r2].exchangeId = "gateio"
    /\ Has(log[r1], "cache.set") /\ Has(log[r2], "cache.set")
    /\ MapGet(cache.markets, InfoKey("gateio")) = result[r1].payload
    /\ MapGet(cache.markets, MarketsKey("gateio")) = result[r2].payload


\* The entries of a map under the keys other than key.
Others(map, key) == {e \in map : e[1] # key}

\* The step is a store of request r under (type, key) that leaves every other type
\* and, under the type, every other key as it was.
StoresOnlyUnder(r, type, key) ==
  /\ StoresIn(r, type, key)
  /\ \A other \in DOMAIN CACHE_TTL \ {type} :
       cache'[other] = cache[other] /\ cacheTimestamps'[other] = cacheTimestamps[other]
  /\ type \in KeyedTypes =>
       /\ Others(cache'[type], key) = Others(cache[type], key)
       /\ Others(cacheTimestamps'[type], key) = Others(cacheTimestamps[type], key)
       /\ MapHas(cache'[type], key) /\ MapHas(cacheTimestamps'[type], key)

\* No key stored under tickers is valid, or stored at all, under ohlcv or markets.
TickerKeysApart ==
  \A key \in Keys(cache.tickers) \cup Keys(cacheTimestamps.tickers) :
    \A other \in {"ohlcv", "markets"} :
      /\ ~isCacheValid(other, key)
      /\ ~MapHas(cache[other], key) /\ ~MapHas(cacheTimestamps[other], key)

(* C29: a step that changes the cache or its timestamps is the store of one       *)
(* request under one type and key: the payloads and timestamps of every other     *)
(* type and of every other key of that type are as before; and no key stored      *)
(* under tickers is a hit under ohlcv or under markets.                           *)
C29_StoreFrame ==
  [][/\ \/ UNCHANGED <<cache, cacheTimestamps>>
        \/ \E r \in Requests :
             /\ pc[r] # "done" /\ pc'[r] = "done" /\ log'[r] # <<>>
             /\ StoresOnlyUnder(r, TypeOf(call'[r].op), log'[r][1].what)
     /\ TickerKeysApart']_vars

\* A ticker and, after it, the candles or the markets of the same exchange were
\* stored; the ticker is still there as it was stored.
C29_Witness ==
  \E r1, r2 \in Requests :
    /\ FetchedOnMiss(r1) /\ FetchedOnMiss(r2)
    /\ call[r1].op = "getTicker" /\ call[r2].op \in {"getOHLCV", "getMarkets"}
    /\ log[r1][Len(log[r1])].at < log[r2][Len(log[r2])].at
    /\ MapGet(cache.tickers, log[r1][1].what) = result[r1].payload
    /\ MapGet(cacheTimestamps.tickers, log[r1][1].what) = log[r1][Len(log[r1])].at
    /\ MapGet(cache[TypeOf(call[r2].op)], log[r2][1].what) = result[r2].payload


\* Request r ended with a setCache under key: what it stored and when.
StoredBy(r, type, key) ==
  /\ pc[r] = "done" /\ IsAdapterCall(call[r]) /\ TypeOf(call[r].op) = type
  /\ result[r].kind = "payload"
  /\ IsStore(log[r][Len(log[r])], key)

\* Under each keyed type the keys with a payload are the keys with a timestamp,
\* and the two under a key are those of one setCache: of a request that ended by
\* storing that payload at that time.
KeyedWrittenTogether ==
  \A type \in KeyedTypes :
    /\ Keys(cache[type]) = Keys(cacheTimestamps[type])
    /\ \A key \in Keys(cache[type]) :
         \E r \in Requests :
           /\ StoredBy(r, type, key)
           /\ MapGet(cache[type], key) = result[r].payload
           /\ MapGet(cacheTimestamps[type], key) = log[r][Len(log[r])].at

\* The same for the exchange list, whose two slots always exist.
ListWrittenTogether ==
  /\ cacheTimestamps.exchanges # 0 => cache.exchanges # NoPayload
  /\ cache.exchanges # NoPayload =>
       \E r \in Requests :
         /\ StoredBy(r, "exchanges", "exchanges")
         /\ cache.exchanges = result[r].payload
         /\ cacheTimestamps.exchanges = log[r][Len(log[r])].at

====
